---------------------------- MODULE Spec2Model ----------------------------
(***************************************************************************)
(* A model of the NxBCI acquisition layer (PythonSDK/NxBCI): the TCP       *)
(* receiver, the serial receiver and the replay engine, each a bounded     *)
(* per-channel buffer group filled by a background worker thread and read  *)
(* by client calls.  One object of one class is under test at a time;      *)
(* `receiver` says which.  Threads interleave at the granularity of        *)
(* Python statements; a blocking call (connect, recv, join, wait) is       *)
(* split into the step that enters it and the step that leaves it.         *)
(***************************************************************************)
EXTENDS Integers, Sequences, FiniteSets, TLC

(***************************************************************************)
(* Bounds of the model.                                                    *)
(***************************************************************************)
\* channels (constructor argument, 16 by default)
NumChannels == 2
\* queue_len = sample_rate * duration (constructor arguments)
QueueLen == 2
\* frames the peer / the file delivers before it falls silent
MaxFrames == 3
\* worker thread objects the model tracks
MaxThreads == 2
\* cap of the counter of consecutive failed connect attempts
MaxFail == 2

(***************************************************************************)
(* Program constants.                                                      *)
(***************************************************************************)
PACKET_SIZE == 66
RECONNECT_DELAY == 3
\* bytes a short recv() returns in the model (any value in 1..read_size is
\* possible; the model tries one short length and the full length)
ShortRead == 33

Channels == 1..NumChannels
Threads == 1..MaxThreads
Min(a, b) == IF a < b THEN a ELSE b

(***************************************************************************)
(* collections.deque(maxlen=n): append and copy.  Deques are objects: the  *)
(* heap maps an object id to the deque's items, so that two names of one   *)
(* object are distinguishable from two equal objects.                      *)
(***************************************************************************)
Tail1(s) == SubSeq(s, 2, Len(s))

DequeAppendNoEvict(q, v, maxlen) == Append(q, v)

\* deque.append on a deque with maxlen: a full deque discards its leftmost
\* item; maxlen = 0 keeps nothing
DequeAppend(q, v, maxlen) ==
    IF maxlen = 0 THEN <<>>
    ELSE IF Len(q) >= maxlen THEN Append(Tail1(q), v)
    ELSE Append(q, v)

\* the last k items of s
LastK(s, k) == SubSeq(s, Len(s) - k + 1, Len(s))

VARIABLES
    receiver,            \* the class of the object under test
    heap,                \* object id -> items of the deque object
    \* ---- TCP_Receiver ----
    tcp_stop_event,      \* _stop_event
    tcp_worker_thread,   \* _worker_thread: a thread id, 0 for None
    tcp_client_socket,   \* _client_socket: "None", or the socket's state
    tcp_socket_lock,     \* _socket_lock: "free" or its holder
    state_lock,          \* the lock get_emg_data takes (_state_lock of
                         \* TCP_Receiver and Replay, buffer_lock of
                         \* Serial_Receiver): "free" or its holder
    tcp_is_connected,    \* _is_connected
    tcp_is_receiving,    \* _is_receiving
    tcp_pc,              \* per worker thread: where it is
    tcp_buffer,          \* per worker thread: len(buffer) in _receive_data_loop
    tcp_exc,             \* per worker thread: exception in flight through finally
    tcp_chan,            \* per worker thread: channels of the frame appended so far
    tcp_frame,           \* per worker thread: the frame being processed
    tcp_timer,           \* per worker thread: seconds left of _stop_event.wait
    client_pc,           \* the client thread: where it is
    snap_build,          \* get_emg_data: copies made so far (object ids)
    snapshot,            \* the list get_emg_data returned last (object ids)
    \* ---- history ----
    tcp_nframes,         \* frames handed to _process_packet so far
    tcp_slice,           \* history: len(packet) of the last such frame
    tcp_pushed,          \* per channel: every value appended, in order
    tcp_log,             \* per worker: what it did since its last connect attempt
    tcp_fails,           \* per worker: consecutive failed connects (capped)
    tcp_escaped,         \* an exception has propagated out of a worker thread
    tcp_stop_called,     \* stop() was called since the last start() that spawned
    tcp_join_timed_out,  \* the last stop() gave up joining a live worker
    tcp_last_start,      \* what the last start() did: "spawned" or "noop"
    \* ---- Serial_Receiver ----
    ser_is_running,      \* is_running
    ser_port,            \* serial_port: "None", or "open" / "closed" (is_open)
    ser_pc,              \* the read thread: where it is ("dead": not alive)
    ser_buffer,          \* self.buffer (bytes)
    ser_local,           \* local_buffer of _read_loop (bytes)
    ser_batch,           \* what the last pop_new_data returned
    ser_reads,           \* history: read() calls that returned data
    ser_spans,           \* history: head..tail spans consumed
    ser_mark,            \* history: ser_spans at the last pop_new_data or reset
    ser_last_span,       \* history: raw payload of the last span consumed
    ser_pushed,          \* history: per channel, every value appended
    ser_failed,          \* history: read() raised since the last open()
    ser_sync,            \* history: the bytes at the head of local_buffer and
                         \* of self.buffer that were read before the last
                         \* reset_internal_buffers, and whether a sample made
                         \* of such bytes was appended
    rep_mmap,            \* Replay._mmapped_file: "None" or "open"
    rep_isLoop,          \* Replay.isLoop
    rep_is_running,      \* Replay._is_running
    rep_stop_event,      \* Replay._stop_event is set
    rep_worker_thread,   \* Replay._worker_thread: 0 (None) or a thread
    rep_pc,              \* position of each Replay worker thread
    rep_offset,          \* current_offset of each worker (bytes)
    rep_packet,          \* index of the packet each worker is appending
    rep_chan,            \* loop variable i of _parse_and_append
    rep_raised,          \* history: start() raised RuntimeError
    rep_stop_called,     \* history: stop() called and no start() since
    rep_start_sample,    \* Replay._start_sample
    rep_end_sample,      \* Replay._end_sample
    rep_end_off,         \* end_offset of each worker (bytes)
    rep_call,            \* the call the client is in that runs stop() first
    rep_last,            \* history: per channel, the record pushed last since
                         \* the last start of a thread (-1: none)
    rep_count,           \* history: per channel, pushes since the last start
                         \* of a thread, counted up to RepFileLen
    rep_late,            \* history: per worker, the records it has read since
                         \* a stop() set the event during its life (-1: no
                         \* such stop(); counted up to 2)
    rep_bad_call,        \* history: 0, or 1 and 2 in turn when the last
                         \* play_from or play_segment had arguments outside
                         \* the file
    rep_cache,           \* Replay._full_emg_data_cache
    rep_is_data_loaded,  \* Replay._is_data_loaded
    rep_seg,             \* the last get_segment: arguments, _is_data_loaded, result
    \* ---- Serial_Receiver._unescape_data on its own ----
    une_in,              \* the bytes under test
    une_out,             \* the result of the last application
    une_op,              \* what was applied: "none", "unescape", "roundtrip"
    \* ---- MQTT_Receiver ----
    mqtt_is_connected,   \* _is_connected
    mqtt_is_receiving,   \* _is_receiving
    mqtt_pc,             \* position of the callback thread in _on_message
    mqtt_msg,            \* the message of the last _on_message call
    mqtt_chan,           \* loop variable i of the append loop
    mqtt_nmsg,           \* history: messages delivered so far
    mqtt_gps,            \* gps_data (both deques: message ids)
    mqtt_gyro,           \* gyro_data (all three deques: message ids)
    \* ---- MultiSourceController and its AsyncCSVLogger ----
    msc_local,           \* local_buffers: per device a deque of chunks
    msc_popped,          \* history: per device, samples popped from its receiver
    msc_emitted,         \* history: columns emitted so far
    msc_ret,             \* the last return value of get_aligned_data
    msc_client,          \* position of the caller: "idle" or "join" (in stop())
    csv_queue,           \* queue: batches of rows
    csv_stop_event,      \* stop_event
    csv_write_thread,    \* write_thread: 0 for None, else the thread
    csv_pc,              \* per writer thread: its position in _write_loop
    csv_chunk,           \* per writer thread: local chunk
    csv_lines,           \* per writer thread: local lines
    csv_sample_index,    \* sample_index
    csv_file,            \* the data lines of the file
    csv_written,         \* history: every line written, in order of writing
    csv_accepted,        \* history: rows put on the queue so far
    csv_stop_mark,       \* history: rows accepted when stop() last set the flag
    csv_overlap,         \* history: start() was called while a writer was alive
    \* ---- Replay's constructor, pacing and the decoders on their own ----
    ctor,                \* a Replay under construction: arguments, fields, stage
    pace,                \* the clock and the locals of a paced playback
    dec,                 \* a frame and what each decoder makes of it
    \* ---- packet processing and the legacy classes on their own ----
    gps,                 \* raw GPS values and their decimal degrees
    pkt,                 \* TCP_Receiver._process_packet: packets and buffers
    leg,                 \* the legacy TCP_Receiver (64-byte packets): buffers
    old                  \* the legacy Replay: all_datas, rawData, file

tcp_prog_vars == <<heap, tcp_stop_event, tcp_worker_thread, tcp_client_socket,
                   tcp_socket_lock, state_lock, tcp_is_connected,
                   tcp_is_receiving, tcp_pc, tcp_buffer, tcp_exc, tcp_chan,
                   tcp_frame, tcp_timer>>
tcp_hist_vars == <<tcp_nframes, tcp_slice, tcp_pushed, tcp_log, tcp_fails, tcp_escaped,
                   tcp_stop_called, tcp_join_timed_out, tcp_last_start>>
client_vars == <<client_pc, snap_build, snapshot>>
tcp_vars == <<tcp_stop_event, tcp_worker_thread, tcp_client_socket,
              tcp_socket_lock, tcp_is_connected, tcp_is_receiving, tcp_pc,
              tcp_buffer, tcp_exc, tcp_chan, tcp_frame, tcp_timer, tcp_hist_vars>>
ser_vars == <<ser_is_running, ser_port, ser_pc, ser_buffer, ser_local, ser_batch,
              ser_reads, ser_spans, ser_mark, ser_last_span, ser_pushed,
              ser_failed, ser_sync>>
rep_vars == <<rep_mmap, rep_isLoop, rep_is_running, rep_stop_event,
              rep_worker_thread, rep_pc, rep_offset, rep_packet, rep_chan,
              rep_raised, rep_stop_called, rep_start_sample, rep_end_sample,
              rep_end_off, rep_call, rep_last, rep_count, rep_late, rep_bad_call,
              rep_cache,
              rep_is_data_loaded, rep_seg>>
une_vars == <<une_in, une_out, une_op>>
\* the state of the components that are no receiver
mqtt_vars == <<mqtt_is_connected, mqtt_is_receiving, mqtt_pc, mqtt_msg,
               mqtt_chan, mqtt_nmsg, mqtt_gps, mqtt_gyro>>
msc_vars == <<msc_local, msc_popped, msc_emitted, msc_ret, msc_client>>
csv_vars == <<csv_queue, csv_stop_event, csv_write_thread, csv_pc, csv_chunk,
              csv_lines, csv_sample_index, csv_file, csv_written,
              csv_accepted, csv_stop_mark, csv_overlap>>
aux_vars == <<gps, pkt, leg, old>>
fn_vars == <<ctor, pace, dec, aux_vars>>
other_vars == <<une_vars, mqtt_vars, msc_vars, csv_vars, fn_vars>>
\* what the actions of TCP_Receiver leave alone
not_tcp == <<receiver, ser_vars, rep_vars, other_vars>>
vars == <<receiver, tcp_prog_vars, tcp_hist_vars, client_vars, ser_vars, rep_vars,
          other_vars>>

(***************************************************************************)
(* Objects.  The live EMG deques of the receiver under test are objects    *)
(* 1..NumChannels; the deques a get_emg_data call creates are the objects  *)
(* NumChannels+1..2*NumChannels (the client keeps one returned list).      *)
(***************************************************************************)
emg_data_queues == [i \in Channels |-> i]
CopyId(i) == NumChannels + i
Objects == 1..(2 * NumChannels)

\* q.copy(): a new deque object with the same items and maxlen
DequeCopyAlias(h, src, new) == [obj |-> src, heap |-> h]

DequeCopy(h, src, new) == [obj |-> new, heap |-> [h EXCEPT ![new] = h[src]]]

(***************************************************************************)
(* Exceptions: the classes the socket calls raise, and isinstance.         *)
(* socket.error is OSError; socket.timeout and the connection errors are   *)
(* subclasses of OSError.                                                  *)
(***************************************************************************)
ConnectErrors == {"socket.timeout", "ConnectionRefusedError"}
RecvErrors == {"socket.timeout", "ConnectionResetError"}

IsInstance(e, cls) ==
    \/ cls = e
    \/ cls = "Exception"
    \/ cls = "socket.error" /\ e \in {"OSError", "socket.timeout",
                                      "ConnectionRefusedError",
                                      "ConnectionResetError"}

Catches(clause, e) == \E cls \in clause : IsInstance(e, cls)

\* except clause of _worker_loop
WorkerLoopExceptTimeoutOnly == {"socket.timeout"}

WorkerLoopExcept == {"socket.timeout", "socket.error"}

\* except clause of _receive_data_loop
ReceiveLoopExcept == {"socket.error"}

\* the exception left in flight after the handlers an exception raised in
\* recv() passes: the inner handler breaks out of the loop, the outer one
\* falls through to finally
AfterHandlers(e, inner) ==
    IF inner /\ Catches(ReceiveLoopExcept, e) THEN "none"
    ELSE IF Catches(WorkerLoopExcept, e) THEN "none"
    ELSE e

\* lengths recv(read_size) may return
RecvSizes(read_size) == {n \in {ShortRead, read_size} : n >= 1 /\ n <= read_size}

Alive(t) == tcp_pc[t] # "dead"

(***************************************************************************)
(* Initial state: the object after __init__.                               *)
(***************************************************************************)
InitObjects ==
    /\ heap = [o \in Objects |-> <<>>]
    /\ client_pc = "idle"
    /\ snap_build = <<>>
    /\ snapshot = <<>>
    /\ state_lock = "free"

InitTCPVars ==
    /\ tcp_stop_event = FALSE
    /\ tcp_worker_thread = 0
    /\ tcp_client_socket = "None"
    /\ tcp_socket_lock = "free"
    /\ tcp_is_connected = FALSE
    /\ tcp_is_receiving = FALSE
    /\ tcp_pc = [t \in Threads |-> "dead"]
    /\ tcp_buffer = [t \in Threads |-> 0]
    /\ tcp_exc = [t \in Threads |-> "none"]
    /\ tcp_chan = [t \in Threads |-> 0]
    /\ tcp_frame = [t \in Threads |-> 0]
    /\ tcp_timer = [t \in Threads |-> 0]
    /\ tcp_nframes = 0
    /\ tcp_slice = 0
    /\ tcp_pushed = [i \in Channels |-> <<>>]
    /\ tcp_log = [t \in Threads |-> <<>>]
    /\ tcp_fails = [t \in Threads |-> 0]
    /\ tcp_escaped = FALSE
    /\ tcp_stop_called = FALSE
    /\ tcp_join_timed_out = FALSE
    /\ tcp_last_start = "none"

InitSerialVars ==
    /\ ser_is_running = FALSE
    /\ ser_port = "None"
    /\ ser_pc = "dead"
    /\ ser_buffer = <<>>
    /\ ser_local = <<>>
    /\ ser_sync = [local |-> 0, buffer |-> 0, stale |-> FALSE]
    /\ ser_batch = <<>>
    /\ ser_reads = 0
    /\ ser_spans = 0
    /\ ser_mark = 0
    /\ ser_last_span = <<>>
    /\ ser_pushed = [i \in Channels |-> <<>>]
    /\ ser_failed = FALSE

InitReplayVars(isLoop) ==
    /\ rep_mmap = "None"
    /\ rep_isLoop = isLoop
    /\ rep_is_running = FALSE
    /\ rep_stop_event = FALSE
    /\ rep_worker_thread = 0
    /\ rep_pc = [t \in Threads |-> "dead"]
    /\ rep_offset = [t \in Threads |-> 0]
    /\ rep_packet = [t \in Threads |-> 0]
    /\ rep_chan = [t \in Threads |-> 0]
    /\ rep_raised = FALSE
    /\ rep_stop_called = FALSE
    /\ rep_start_sample = 0
    /\ rep_end_sample = -1
    /\ rep_end_off = [t \in Threads |-> 0]
    /\ rep_call = [op |-> "none", s |-> 0, e |-> 0]
    /\ rep_last = [i \in Channels |-> -1]
    /\ rep_count = [i \in Channels |-> 0]
    /\ rep_late = [t \in Threads |-> -1]
    /\ rep_bad_call = 0
    /\ rep_cache = <<>>
    /\ rep_is_data_loaded = FALSE
    /\ rep_seg = [s |-> 0, e |-> 0, loaded |-> FALSE, ret |-> <<>>]

InitMQTTVars ==
    /\ mqtt_is_connected = FALSE
    /\ mqtt_is_receiving = FALSE
    /\ mqtt_pc = "m_idle"
    /\ mqtt_msg = [topic |-> "none", len |-> 0, gps |-> FALSE, gyro |-> FALSE,
                   id |-> 0]
    /\ mqtt_chan = 0
    /\ mqtt_nmsg = 0
    /\ mqtt_gps = <<>>
    /\ mqtt_gyro = <<>>

\* devices of a MultiSourceController
NumDevs == 2
Devs == 1..NumDevs
\* writer threads that are ever created
MaxWriters == 2
Writers == 1..MaxWriters

InitMSCVars ==
    /\ msc_local = [d \in Devs |-> <<>>]
    /\ msc_popped = [d \in Devs |-> 0]
    /\ msc_emitted = 0
    /\ msc_ret = [none |-> TRUE, cols |-> [d \in Devs |-> <<>>]]
    /\ msc_client = "idle"
    /\ csv_queue = <<>>
    /\ csv_stop_event = FALSE
    /\ csv_write_thread = 0
    /\ csv_pc = [t \in Writers |-> "unborn"]
    /\ csv_chunk = [t \in Writers |-> <<>>]
    /\ csv_lines = [t \in Writers |-> <<>>]
    /\ csv_sample_index = 0
    /\ csv_file = <<>>
    /\ csv_written = <<>>
    /\ csv_accepted = 0
    /\ csv_stop_mark = 0
    /\ csv_overlap = FALSE

InitAuxVars ==
    /\ gps = [done |-> FALSE]
    /\ pkt = [n |-> 0]
    /\ leg = [n |-> 0]
    /\ old = [file |-> "none"]

InitOtherVars ==
    /\ une_in = <<>> /\ une_out = <<>> /\ une_op = "none"
    /\ InitMQTTVars /\ InitMSCVars
    /\ ctor = [stage |-> "none"]
    /\ pace = [pc |-> "none"]
    /\ dec = [frame |-> <<>>]
    /\ InitAuxVars

InitAllVars ==
    /\ InitObjects /\ InitTCPVars /\ InitSerialVars /\ InitReplayVars(FALSE)
    /\ InitOtherVars

\* the state after construction when component r is the one under test
InitOf(r) == receiver = r /\ InitAllVars

InitTCP == InitOf("TCP")

(***************************************************************************)
(* TCP_Receiver: the worker thread t (_worker_loop and what it calls).     *)
(***************************************************************************)
tcp_worker_rest == <<tcp_stop_event, tcp_worker_thread, tcp_stop_called,
                     tcp_join_timed_out, tcp_last_start, client_vars, not_tcp>>

\* while not self._stop_event.is_set():
WorkerLoopCheck(t) ==
    /\ tcp_pc[t] = "w_loop"
    /\ tcp_pc' = [tcp_pc EXCEPT ![t] = IF tcp_stop_event THEN "dead" ELSE "w_connect"]
    /\ UNCHANGED <<heap, tcp_client_socket, tcp_socket_lock, state_lock,
                   tcp_is_connected, tcp_is_receiving, tcp_buffer, tcp_exc,
                   tcp_chan, tcp_frame, tcp_timer, tcp_nframes, tcp_slice, tcp_pushed,
                   tcp_log, tcp_fails, tcp_escaped, tcp_worker_rest>>

\* with self._socket_lock: self._client_socket = socket.socket(...);
\* settimeout(5.0); connect(...) is entered (it blocks holding the lock)
ConnectEnter(t) ==
    /\ tcp_pc[t] = "w_connect"
    /\ tcp_socket_lock = "free"
    /\ tcp_socket_lock' = "worker"
    /\ tcp_client_socket' = "created"
    /\ tcp_pc' = [tcp_pc EXCEPT ![t] = "w_connecting"]
    /\ tcp_log' = [tcp_log EXCEPT ![t] = <<"attempt">>]
    /\ UNCHANGED <<heap, state_lock, tcp_is_connected, tcp_is_receiving,
                   tcp_buffer, tcp_exc, tcp_chan, tcp_frame, tcp_timer,
                   tcp_nframes, tcp_slice, tcp_pushed, tcp_fails, tcp_escaped,
                   tcp_worker_rest>>

\* connect() returns: the with block ends and releases the lock
ConnectOk(t) ==
    /\ tcp_pc[t] = "w_connecting"
    /\ tcp_socket_lock' = "free"
    /\ tcp_client_socket' = "connected"
    /\ tcp_pc' = [tcp_pc EXCEPT ![t] = "w_set_connected"]
    /\ UNCHANGED <<heap, state_lock, tcp_is_connected, tcp_is_receiving,
                   tcp_buffer, tcp_exc, tcp_chan, tcp_frame, tcp_timer,
                   tcp_nframes, tcp_slice, tcp_pushed, tcp_log, tcp_fails, tcp_escaped,
                   tcp_worker_rest>>

\* connect() raises e: the lock is released, the except clause of
\* _worker_loop applies, then finally
ConnectFail(t) ==
    /\ tcp_pc[t] = "w_connecting"
    /\ \E e \in ConnectErrors :
          tcp_exc' = [tcp_exc EXCEPT ![t] = AfterHandlers(e, FALSE)]
    /\ tcp_socket_lock' = "free"
    /\ tcp_pc' = [tcp_pc EXCEPT ![t] = "w_cleanup_socket"]
    /\ tcp_fails' = [tcp_fails EXCEPT ![t] = Min(@ + 1, MaxFail)]
    /\ UNCHANGED <<heap, tcp_client_socket, state_lock, tcp_is_connected,
                   tcp_is_receiving, tcp_buffer, tcp_chan, tcp_frame, tcp_timer,
                   tcp_nframes, tcp_slice, tcp_pushed, tcp_log, tcp_escaped,
                   tcp_worker_rest>>

\* with self._state_lock: self._is_connected = True; then
\* _receive_data_loop starts with buffer = b''
SetConnected(t) ==
    /\ tcp_pc[t] = "w_set_connected"
    /\ state_lock = "free"
    /\ tcp_is_connected' = TRUE
    /\ tcp_buffer' = [tcp_buffer EXCEPT ![t] = 0]
    /\ tcp_pc' = [tcp_pc EXCEPT ![t] = "w_recv_loop"]
    /\ UNCHANGED <<heap, tcp_client_socket, tcp_socket_lock, state_lock,
                   tcp_is_receiving, tcp_exc, tcp_chan, tcp_frame, tcp_timer,
                   tcp_nframes, tcp_slice, tcp_pushed, tcp_log, tcp_fails, tcp_escaped,
                   tcp_worker_rest>>

\* while not self._stop_event.is_set(): (in _receive_data_loop)
RecvLoopCheck(t) ==
    /\ tcp_pc[t] = "w_recv_loop"
    /\ tcp_pc' = [tcp_pc EXCEPT ![t] =
                     IF tcp_stop_event THEN "w_cleanup_socket" ELSE "w_recv_lock"]
    /\ UNCHANGED <<heap, tcp_client_socket, tcp_socket_lock, state_lock,
                   tcp_is_connected, tcp_is_receiving, tcp_buffer, tcp_exc,
                   tcp_chan, tcp_frame, tcp_timer, tcp_nframes, tcp_slice, tcp_pushed,
                   tcp_log, tcp_fails, tcp_escaped, tcp_worker_rest>>

\* with self._socket_lock: if not self._client_socket: break; recv(read_size)
\* is entered (it blocks holding the lock)
RecvEnter(t) ==
    /\ tcp_pc[t] = "w_recv_lock"
    /\ tcp_socket_lock = "free"
    /\ IF tcp_client_socket = "None"
       THEN /\ tcp_pc' = [tcp_pc EXCEPT ![t] = "w_cleanup_socket"]
            /\ UNCHANGED tcp_socket_lock
       ELSE /\ tcp_pc' = [tcp_pc EXCEPT ![t] = "w_recv"]
            /\ tcp_socket_lock' = "worker"
    /\ UNCHANGED <<heap, tcp_client_socket, state_lock, tcp_is_connected,
                   tcp_is_receiving, tcp_buffer, tcp_exc, tcp_chan, tcp_frame,
                   tcp_timer, tcp_nframes, tcp_slice, tcp_pushed, tcp_log, tcp_fails,
                   tcp_escaped, tcp_worker_rest>>

\* if len(buffer) >= self.PACKET_SIZE, on fewer bytes
PacketReadyEarly(len) == len >= ShortRead

\* if len(buffer) >= self.PACKET_SIZE
PacketReady(len) == len >= PACKET_SIZE

\* recv() returns n bytes: buffer += data; of a full buffer
\* buffer[:PACKET_SIZE] goes to _process_packet and buffer[PACKET_SIZE:]
\* stays
RecvData(t) ==
    /\ tcp_pc[t] = "w_recv"
    /\ tcp_client_socket = "connected"
    /\ tcp_nframes < MaxFrames
    /\ tcp_socket_lock' = "free"
    /\ \E n \in RecvSizes(PACKET_SIZE - tcp_buffer[t]) :
          IF PacketReady(tcp_buffer[t] + n)
          THEN /\ tcp_buffer' = [tcp_buffer EXCEPT
                                    ![t] = @ + n - Min(@ + n, PACKET_SIZE)]
               /\ tcp_slice' = Min(tcp_buffer[t] + n, PACKET_SIZE)
               /\ tcp_nframes' = tcp_nframes + 1
               /\ tcp_frame' = [tcp_frame EXCEPT ![t] = tcp_nframes + 1]
               /\ tcp_chan' = [tcp_chan EXCEPT ![t] = 0]
               /\ tcp_pc' = [tcp_pc EXCEPT ![t] = "w_append"]
          ELSE /\ tcp_buffer' = [tcp_buffer EXCEPT ![t] = @ + n]
               /\ tcp_pc' = [tcp_pc EXCEPT ![t] = "w_recv_loop"]
               /\ UNCHANGED <<tcp_nframes, tcp_slice, tcp_frame, tcp_chan>>
    /\ UNCHANGED <<heap, tcp_client_socket, state_lock, tcp_is_connected,
                   tcp_is_receiving, tcp_exc, tcp_timer, tcp_pushed, tcp_log,
                   tcp_fails, tcp_escaped, tcp_worker_rest>>

\* recv() returns b'': the peer closed the connection; break
RecvEof(t) ==
    /\ tcp_pc[t] = "w_recv"
    /\ tcp_client_socket = "connected"
    /\ tcp_socket_lock' = "free"
    /\ tcp_pc' = [tcp_pc EXCEPT ![t] = "w_cleanup_socket"]
    /\ UNCHANGED <<heap, tcp_client_socket, state_lock, tcp_is_connected,
                   tcp_is_receiving, tcp_buffer, tcp_exc, tcp_chan, tcp_frame,
                   tcp_timer, tcp_nframes, tcp_slice, tcp_pushed, tcp_log, tcp_fails,
                   tcp_escaped, tcp_worker_rest>>

\* recv() raises: a timeout or reset of the connection, or OSError at once
\* on a socket that stop() has closed
RecvError(t) ==
    /\ tcp_pc[t] = "w_recv"
    /\ \E e \in (IF tcp_client_socket = "connected" THEN RecvErrors ELSE {"OSError"}) :
          tcp_exc' = [tcp_exc EXCEPT ![t] = AfterHandlers(e, TRUE)]
    /\ tcp_socket_lock' = "free"
    /\ tcp_pc' = [tcp_pc EXCEPT ![t] = "w_cleanup_socket"]
    /\ UNCHANGED <<heap, tcp_client_socket, state_lock, tcp_is_connected,
                   tcp_is_receiving, tcp_buffer, tcp_chan, tcp_frame, tcp_timer,
                   tcp_nframes, tcp_slice, tcp_pushed, tcp_log, tcp_fails, tcp_escaped,
                   tcp_worker_rest>>

\* the decoded value of channel i of frame f (frames are told apart by
\* their number; every channel of frame f carries f)
Voltage(f, i) == f

\* _process_packet: for i in range(self.num_channels):
\*     self.emg_data_queues[i].append(voltages[i])      (one iteration)
AppendChannel(t) ==
    /\ tcp_pc[t] = "w_append"
    /\ LET i == tcp_chan[t] + 1
           v == Voltage(tcp_frame[t], i)
       IN /\ heap' = [heap EXCEPT ![emg_data_queues[i]] = DequeAppend(@, v, QueueLen)]
          /\ tcp_pushed' = [tcp_pushed EXCEPT ![i] = Append(@, v)]
          /\ tcp_chan' = [tcp_chan EXCEPT ![t] = i]
          /\ tcp_pc' = [tcp_pc EXCEPT ![t] =
                           IF i = NumChannels THEN "w_set_receiving" ELSE "w_append"]
    /\ UNCHANGED <<tcp_client_socket, tcp_socket_lock, state_lock,
                   tcp_is_connected, tcp_is_receiving, tcp_buffer, tcp_exc,
                   tcp_frame, tcp_timer, tcp_nframes, tcp_slice, tcp_log, tcp_fails,
                   tcp_escaped, tcp_worker_rest>>

\* with self._state_lock: self._is_receiving = True
SetReceiving(t) ==
    /\ tcp_pc[t] = "w_set_receiving"
    /\ state_lock = "free"
    /\ tcp_is_receiving' = TRUE
    /\ tcp_pc' = [tcp_pc EXCEPT ![t] = "w_recv_loop"]
    /\ UNCHANGED <<heap, tcp_client_socket, tcp_socket_lock, state_lock,
                   tcp_is_connected, tcp_buffer, tcp_exc, tcp_chan, tcp_frame,
                   tcp_timer, tcp_nframes, tcp_slice, tcp_pushed, tcp_log, tcp_fails,
                   tcp_escaped, tcp_worker_rest>>

\* finally: _cleanup_connection, first half:
\* with self._socket_lock: close the socket, self._client_socket = None
CleanupSocket(t) ==
    /\ tcp_pc[t] = "w_cleanup_socket"
    /\ tcp_socket_lock = "free"
    /\ tcp_client_socket' = "None"
    /\ tcp_pc' = [tcp_pc EXCEPT ![t] = "w_cleanup_state"]
    /\ UNCHANGED <<heap, tcp_socket_lock, state_lock, tcp_is_connected,
                   tcp_is_receiving, tcp_buffer, tcp_exc, tcp_chan, tcp_frame,
                   tcp_timer, tcp_nframes, tcp_slice, tcp_pushed, tcp_log, tcp_fails,
                   tcp_escaped, tcp_worker_rest>>

\* _cleanup_connection, second half: with self._state_lock: both flags
\* False.  Then an exception still in flight leaves the thread, else the
\* loop body goes on to the reconnect delay.
CleanupState(t) ==
    /\ tcp_pc[t] = "w_cleanup_state"
    /\ state_lock = "free"
    /\ tcp_is_connected' = FALSE
    /\ tcp_is_receiving' = FALSE
    /\ tcp_log' = [tcp_log EXCEPT ![t] = Append(@, "cleanup")]
    /\ tcp_fails' = [tcp_fails EXCEPT ![t] = IF tcp_is_connected THEN 0 ELSE @]
    /\ IF tcp_exc[t] # "none"
       THEN /\ tcp_pc' = [tcp_pc EXCEPT ![t] = "dead"]
            /\ tcp_escaped' = TRUE
       ELSE /\ tcp_pc' = [tcp_pc EXCEPT ![t] = "w_wait_check"]
            /\ UNCHANGED tcp_escaped
    /\ tcp_exc' = [tcp_exc EXCEPT ![t] = "none"]
    /\ UNCHANGED <<heap, tcp_client_socket, tcp_socket_lock, state_lock,
                   tcp_buffer, tcp_chan, tcp_frame, tcp_timer, tcp_nframes, tcp_slice,
                   tcp_pushed, tcp_worker_rest>>

\* the reconnect delay is skipped
WaitCheckNoDelay(t) ==
    /\ tcp_pc[t] = "w_wait_check"
    /\ tcp_pc' = [tcp_pc EXCEPT ![t] = "w_loop"]
    /\ UNCHANGED <<heap, tcp_client_socket, tcp_socket_lock, state_lock,
                   tcp_is_connected, tcp_is_receiving, tcp_buffer, tcp_exc,
                   tcp_chan, tcp_frame, tcp_timer, tcp_nframes, tcp_slice, tcp_pushed,
                   tcp_log, tcp_fails, tcp_escaped, tcp_worker_rest>>

\* if not self._stop_event.is_set(): self._stop_event.wait(RECONNECT_DELAY)
WaitCheck(t) ==
    /\ tcp_pc[t] = "w_wait_check"
    /\ IF tcp_stop_event
       THEN /\ tcp_pc' = [tcp_pc EXCEPT ![t] = "w_loop"]
            /\ UNCHANGED tcp_timer
       ELSE /\ tcp_pc' = [tcp_pc EXCEPT ![t] = "w_wait"]
            /\ tcp_timer' = [tcp_timer EXCEPT ![t] = RECONNECT_DELAY]
    /\ UNCHANGED <<heap, tcp_client_socket, tcp_socket_lock, state_lock,
                   tcp_is_connected, tcp_is_receiving, tcp_buffer, tcp_exc,
                   tcp_chan, tcp_frame, tcp_nframes, tcp_slice, tcp_pushed, tcp_log,
                   tcp_fails, tcp_escaped, tcp_worker_rest>>

\* one second of _stop_event.wait passes with the event not set
WaitTick(t) ==
    /\ tcp_pc[t] = "w_wait"
    /\ ~tcp_stop_event
    /\ tcp_timer[t] > 0
    /\ tcp_timer' = [tcp_timer EXCEPT ![t] = @ - 1]
    /\ UNCHANGED <<heap, tcp_client_socket, tcp_socket_lock, state_lock,
                   tcp_is_connected, tcp_is_receiving, tcp_buffer, tcp_exc,
                   tcp_chan, tcp_frame, tcp_pc, tcp_nframes, tcp_slice, tcp_pushed, tcp_log,
                   tcp_fails, tcp_escaped, tcp_worker_rest>>

\* _stop_event.wait returns: the delay has passed, or the event was set
WaitReturn(t) ==
    /\ tcp_pc[t] = "w_wait"
    /\ tcp_stop_event \/ tcp_timer[t] = 0
    /\ tcp_log' = [tcp_log EXCEPT ![t] =
                      Append(@, IF tcp_timer[t] = 0 THEN "wait" ELSE "wait_cut")]
    /\ tcp_timer' = [tcp_timer EXCEPT ![t] = 0]
    /\ tcp_pc' = [tcp_pc EXCEPT ![t] = "w_loop"]
    /\ UNCHANGED <<heap, tcp_client_socket, tcp_socket_lock, state_lock,
                   tcp_is_connected, tcp_is_receiving, tcp_buffer, tcp_exc,
                   tcp_chan, tcp_frame, tcp_nframes, tcp_slice, tcp_pushed, tcp_fails,
                   tcp_escaped, tcp_worker_rest>>

Worker(t) ==
    \/ WorkerLoopCheck(t) \/ ConnectEnter(t) \/ ConnectOk(t) \/ ConnectFail(t)
    \/ SetConnected(t) \/ RecvLoopCheck(t) \/ RecvEnter(t) \/ RecvData(t)
    \/ RecvEof(t) \/ RecvError(t) \/ AppendChannel(t) \/ SetReceiving(t)
    \/ CleanupSocket(t) \/ CleanupState(t) \/ WaitCheck(t) \/ WaitTick(t)
    \/ WaitReturn(t)

(***************************************************************************)
(* TCP_Receiver: the calls of the client thread.                           *)
(***************************************************************************)
tcp_worker_locals == <<tcp_buffer, tcp_exc, tcp_chan, tcp_frame, tcp_timer,
                       tcp_nframes, tcp_slice, tcp_pushed, tcp_fails, tcp_escaped>>

\* the thread object a start() creates (a slot of the model not in use)
FreshThread == CHOOSE t \in Threads : ~Alive(t) /\ \A u \in Threads : ~Alive(u) => t <= u

Spawn ==
    /\ tcp_stop_event' = FALSE
    /\ tcp_worker_thread' = FreshThread
    /\ tcp_pc' = [tcp_pc EXCEPT ![FreshThread] = "w_loop"]
    /\ tcp_log' = [tcp_log EXCEPT ![FreshThread] = <<"start">>]
    /\ tcp_stop_called' = FALSE
    /\ tcp_join_timed_out' = FALSE
    /\ tcp_last_start' = "spawned"

\* start() without the is_alive() test
StartAlways ==
    /\ receiver = "TCP"
    /\ client_pc = "idle"
    /\ state_lock = "free"
    /\ IF \E t \in Threads : ~Alive(t)
       THEN Spawn
       ELSE /\ tcp_last_start' = "noop"
            /\ UNCHANGED <<tcp_stop_event, tcp_worker_thread, tcp_pc, tcp_log,
                           tcp_stop_called, tcp_join_timed_out>>
    /\ UNCHANGED <<heap, tcp_client_socket, tcp_socket_lock, state_lock,
                   tcp_is_connected, tcp_is_receiving, tcp_worker_locals,
                   client_vars, not_tcp>>

\* start(): with self._state_lock: return if the worker thread is alive,
\* else clear the event and start a new thread
Start ==
    /\ receiver = "TCP"
    /\ client_pc = "idle"
    /\ state_lock = "free"
    /\ IF (IF tcp_worker_thread = 0 THEN FALSE ELSE Alive(tcp_worker_thread))
       THEN /\ tcp_last_start' = "noop"
            /\ UNCHANGED <<tcp_stop_event, tcp_worker_thread, tcp_pc, tcp_log,
                           tcp_stop_called, tcp_join_timed_out>>
       ELSE Spawn
    /\ UNCHANGED <<heap, tcp_client_socket, tcp_socket_lock, state_lock,
                   tcp_is_connected, tcp_is_receiving, tcp_worker_locals,
                   client_vars, not_tcp>>

\* stop(): self._stop_event.set()
StopSet ==
    /\ receiver = "TCP"
    /\ client_pc = "idle"
    /\ tcp_stop_event' = TRUE
    /\ tcp_stop_called' = TRUE
    /\ tcp_join_timed_out' = FALSE
    /\ client_pc' = "stop_close"
    /\ UNCHANGED <<heap, tcp_worker_thread, tcp_client_socket, tcp_socket_lock,
                   state_lock, tcp_is_connected, tcp_is_receiving, tcp_pc,
                   tcp_log, tcp_worker_locals, tcp_last_start, snap_build,
                   snapshot, not_tcp>>

\* stop(): with self._socket_lock: if self._client_socket: close()
StopClose ==
    /\ client_pc = "stop_close"
    /\ tcp_socket_lock = "free"
    /\ tcp_client_socket' = IF tcp_client_socket = "None" THEN "None" ELSE "closed"
    /\ client_pc' = "stop_join"
    /\ UNCHANGED <<heap, tcp_stop_event, tcp_worker_thread, tcp_socket_lock,
                   state_lock, tcp_is_connected, tcp_is_receiving, tcp_pc,
                   tcp_log, tcp_worker_locals, tcp_stop_called,
                   tcp_join_timed_out, tcp_last_start, snap_build, snapshot,
                   not_tcp>>

\* stop(): the join is skipped or returns because the worker is not alive,
\* and stop() returns
StopJoined ==
    /\ client_pc = "stop_join"
    /\ IF tcp_worker_thread = 0 THEN TRUE ELSE ~Alive(tcp_worker_thread)
    /\ client_pc' = "idle"
    /\ UNCHANGED <<tcp_prog_vars, tcp_hist_vars, snap_build, snapshot, not_tcp>>

\* stop(): join(timeout=2.0) gives up on a live worker, and stop() returns
StopJoinTimeout ==
    /\ client_pc = "stop_join"
    /\ IF tcp_worker_thread = 0 THEN FALSE ELSE Alive(tcp_worker_thread)
    /\ tcp_join_timed_out' = TRUE
    /\ client_pc' = "idle"
    /\ UNCHANGED <<tcp_prog_vars, tcp_nframes, tcp_slice, tcp_pushed, tcp_log, tcp_fails,
                   tcp_escaped, tcp_stop_called, tcp_last_start, snap_build,
                   snapshot, not_tcp>>

\* get_emg_data(): with self._state_lock: the list comprehension starts
\* (the list an earlier call returned is dropped by the client)
GetEnter ==
    /\ client_pc = "idle"
    /\ state_lock = "free"
    /\ state_lock' = "client"
    /\ snap_build' = <<>>
    /\ snapshot' = <<>>
    /\ client_pc' = "get_copy"
    /\ heap' = [o \in Objects |-> IF o \in Channels THEN heap[o] ELSE <<>>]
    /\ UNCHANGED <<tcp_stop_event, tcp_worker_thread, tcp_client_socket,
                   tcp_socket_lock, tcp_is_connected, tcp_is_receiving, tcp_pc,
                   tcp_buffer, tcp_exc, tcp_chan, tcp_frame, tcp_timer,
                   tcp_hist_vars, not_tcp>>

\* get_emg_data(): q.copy() for the next q of self.emg_data_queues
GetCopy ==
    /\ client_pc = "get_copy"
    /\ Len(snap_build) < NumChannels
    /\ LET i == Len(snap_build) + 1
           c == DequeCopy(heap, emg_data_queues[i], CopyId(i))
       IN /\ heap' = c.heap
          /\ snap_build' = Append(snap_build, c.obj)
    /\ UNCHANGED <<tcp_stop_event, tcp_worker_thread, tcp_client_socket,
                   tcp_socket_lock, state_lock, tcp_is_connected,
                   tcp_is_receiving, tcp_pc, tcp_buffer, tcp_exc, tcp_chan,
                   tcp_frame, tcp_timer, tcp_hist_vars, client_pc, snapshot,
                   not_tcp>>

\* get_emg_data(): the list is complete; the lock is released and the
\* list returned
GetReturn ==
    /\ client_pc = "get_copy"
    /\ Len(snap_build) = NumChannels
    /\ state_lock' = "free"
    /\ snapshot' = snap_build
    /\ snap_build' = <<>>
    /\ client_pc' = "idle"
    /\ UNCHANGED <<heap, tcp_stop_event, tcp_worker_thread, tcp_client_socket,
                   tcp_socket_lock, tcp_is_connected, tcp_is_receiving, tcp_pc,
                   tcp_buffer, tcp_exc, tcp_chan, tcp_frame, tcp_timer,
                   tcp_hist_vars, not_tcp>>

NextTCP ==
    \/ \E t \in Threads : Worker(t)
    \/ Start \/ StopSet \/ StopClose \/ StopJoined \/ StopJoinTimeout
    \/ GetEnter \/ GetCopy \/ GetReturn

SpecTCP == InitTCP /\ [][NextTCP]_vars

(***************************************************************************)
(* Properties of TCP_Receiver.                                             *)
(***************************************************************************)
AliveWorkers == {t \in Threads : Alive(t)}
Receiving == tcp_is_connected /\ tcp_is_receiving

\* C1: every bounded channel buffer holds exactly the last
\* min(n, capacity) of the n values pushed into it, in push order (so its
\* length never exceeds the capacity and the oldest value is evicted first).
C1_BufferHoldsLastPushed ==
    \A i \in Channels :
        LET n == Len(tcp_pushed[i])
        IN heap[emg_data_queues[i]] = LastK(tcp_pushed[i], Min(n, QueueLen))

\* C1 witness: more values than the capacity were pushed into a buffer and
\* the buffer is full.
C1_Witness ==
    \E i \in Channels :
        /\ Len(tcp_pushed[i]) > QueueLen
        /\ Len(heap[emg_data_queues[i]]) = QueueLen

\* C3: at most one worker thread is alive at any time, and while a worker
\* is alive no step (a start() in particular) makes another thread alive.
C3_AtMostOneWorker ==
    /\ [](Cardinality(AliveWorkers) <= 1)
    /\ [][(AliveWorkers # {}) => (\A t \in Threads : Alive(t)' => Alive(t))]_vars

\* C3 witness: stop() gave up its join on a worker that is still alive, and
\* a start() called after it found that worker alive and spawned nothing.
C3_Witness ==
    /\ tcp_join_timed_out
    /\ tcp_last_start = "noop"
    /\ client_pc = "idle"
    /\ Cardinality(AliveWorkers) = 1

\* C5 (as claimed): while the worker is blocked in recv() on an established
\* connection, stop() can close the socket at once, without waiting for
\* that recv() to return.
C5_StopClosesDuringRecv ==
    (client_pc = "stop_close"
        /\ \E t \in Threads : tcp_pc[t] = "w_recv" /\ tcp_client_socket = "connected")
    => ENABLED StopClose

C40_RestartAlwaysWorks ==
    [][(Start /\ tcp_stop_called) =>
          (AliveWorkers' # {} /\ ~tcp_stop_event')]_vars

\* C38: in every state _is_receiving implies _is_connected, and both flags
\* are false whenever a worker is waiting out the reconnect delay and
\* whenever no worker is alive (none was started, or it has terminated).
C38_ReceivingImpliesConnected ==
    /\ tcp_is_receiving => tcp_is_connected
    /\ (\E t \in Threads : tcp_pc[t] \in {"w_wait_check", "w_wait"}) =>
          (~tcp_is_connected /\ ~tcp_is_receiving)
    /\ AliveWorkers = {} => (~tcp_is_connected /\ ~tcp_is_receiving)

\* C38 witness: a worker that has received frames lost its connection and
\* waits out the reconnect delay.
C38_Witness ==
    \E t \in Threads :
        /\ tcp_pc[t] = "w_wait"
        /\ tcp_timer[t] > 0
        /\ tcp_nframes >= 1
        /\ \A i \in Channels : Len(tcp_pushed[i]) >= 1
        /\ ~tcp_is_connected /\ ~tcp_is_receiving

\* C9 (as claimed): every snapshot get_emg_data returns holds, for every
\* frame, either all of its channel values or none: all channels of the
\* snapshot hold the same frames.
C9_SnapshotFrameAtomic ==
    snapshot # <<>> =>
        \A i, j \in Channels : heap[snapshot[i]] = heap[snapshot[j]]

(***************************************************************************)
(* The life cycle alone (start, stop and the worker, without a reader),    *)
(* with fairness, for the liveness claims about the TCP worker.  A worker  *)
(* that can run does run and gets a lock that keeps being released; the    *)
(* claim's own hypotheses are that a connect attempt eventually succeeds   *)
(* and that the peer then delivers a whole packet.                         *)
(***************************************************************************)
RecvPacket(t) == RecvData(t) /\ tcp_nframes' = tcp_nframes + 1

NextTCPLife ==
    \/ \E t \in Threads : Worker(t)
    \/ Start \/ StopSet \/ StopClose \/ StopJoined \/ StopJoinTimeout

SpecTCPLive ==
    /\ InitTCP
    /\ [][NextTCPLife]_vars
    /\ SF_vars(\E t \in Threads : Worker(t))
    /\ SF_vars(\E t \in Threads : ConnectOk(t))
    /\ SF_vars(\E t \in Threads : RecvPacket(t))

\* C4: (a) a worker that is running and has processed no packet yet reaches
\* the Receiving state (connected and receiving) unless stop() is called,
\* however many connect attempts fail first; (b) a connect attempt is either
\* the first of its thread or follows the previous attempt by exactly one
\* connection cleanup and then one full reconnect delay, in this order.
C4_ReconnectReachesReceiving ==
    /\ ((AliveWorkers # {} /\ tcp_nframes = 0 /\ ~tcp_stop_called)
            ~> (Receiving \/ tcp_stop_called))
    /\ [][\A t \in Threads :
            (tcp_pc[t] = "w_connect" /\ tcp_pc'[t] = "w_connecting")
                => tcp_log[t] \in {<<"start">>, <<"attempt", "cleanup", "wait">>}]_vars

\* C4 witness: MaxFail connect attempts in a row failed, the next succeeded
\* and a packet was processed: the worker is in the Receiving state, and
\* stop() was not called.
C4_Witness ==
    \E t \in Threads :
        /\ tcp_fails[t] = MaxFail
        /\ tcp_pc[t] \in {"w_recv_loop", "w_recv_lock", "w_recv"}
        /\ Receiving
        /\ ~tcp_stop_called

(***************************************************************************)
(* Serial_Receiver.  The receiver has 16 channels and 48-byte frames; the  *)
(* model has NumChannels channels of 3 bytes each, and its byte counts     *)
(* (flush threshold, queue length) are scaled to frames of that size.      *)
(***************************************************************************)
FRAME_HEAD == 10
FRAME_TAIL == 13
ESCAPE_BYTE == 27
ESCAPE_HEAD == 1
ESCAPE_TAIL == 2
ESCAPE_ESC == 3
FRAME_SIZE == 3 * NumChannels
\* maxlen of the channel queues (4000 in the source)
SerMaxLen == 2
\* len(local_buffer) at which _read_loop hands the bytes over (1024 in the
\* source)
FlushLen == 4
\* read() calls that return data
MaxReads == 2

not_serial == <<receiver, tcp_vars, rep_vars, other_vars>>

\* s repeated n times
RECURSIVE Repeat(_, _)
Repeat(s, n) == IF n = 0 THEN <<>> ELSE s \o Repeat(s, n - 1)

\* byte streams a read() returns: whole frames of one sample value (1, or
\* -1 as ff ff ff), a stray byte and a frame with an escaped head byte
\* inside, a frame whose payload is too short, two such frames, a frame
\* whose payload is too long, noise without a head byte, and a head byte with no tail byte
SerialChunks ==
    { <<FRAME_HEAD>> \o Repeat(<<0, 0, 1>>, NumChannels) \o <<FRAME_TAIL>>,
      <<FRAME_HEAD>> \o Repeat(<<255, 255, 255>>, NumChannels) \o <<FRAME_TAIL>>,
      <<7, FRAME_HEAD, 0, ESCAPE_BYTE, ESCAPE_HEAD, 2>>
          \o Repeat(<<0, 0, 2>>, NumChannels - 1) \o <<FRAME_TAIL>>,
      <<FRAME_HEAD, 5, FRAME_TAIL>>,
      Repeat(<<FRAME_HEAD, 5, FRAME_TAIL>>, 2),
      <<FRAME_HEAD>> \o Repeat(<<0, 0, 3>>, NumChannels + 1) \o <<FRAME_TAIL>>,
      Repeat(<<7>>, FRAME_SIZE + 1) \o <<FRAME_TAIL>>,
      <<FRAME_HEAD>> \o Repeat(<<0>>, FRAME_SIZE + 1) }

\* bytes.index(b, from): the first position >= from that holds b (1-based),
\* 0 for ValueError
IndexOf(buf, b, from) ==
    IF \E k \in from..Len(buf) : buf[k] = b
    THEN CHOOSE k \in from..Len(buf) :
            buf[k] = b /\ \A j \in from..(k - 1) : buf[j] # b
    ELSE 0

\* _unescape_data, from position i on
RECURSIVE UnescapeFrom(_, _)
UnescapeFrom(data, i) ==
    IF i > Len(data) THEN <<>>
    ELSE IF data[i] = ESCAPE_BYTE
         THEN IF i + 1 <= Len(data)
              THEN <<(IF data[i + 1] = ESCAPE_HEAD THEN FRAME_HEAD
                      ELSE IF data[i + 1] = ESCAPE_TAIL THEN FRAME_TAIL
                      ELSE ESCAPE_BYTE)>> \o UnescapeFrom(data, i + 2)
              ELSE UnescapeFrom(data, i + 1)
         ELSE <<data[i]>> \o UnescapeFrom(data, i + 1)

\* an unescape that copies its input
UnescapeDataCopy(data) == data

UnescapeData(data) == UnescapeFrom(data, 1)

\* _parse_valid_frame: the signed 24-bit big-endian count of channel i
\* (volts[i] is this count times LSB * 1000.0)
ParseValidFrame(data) ==
    [i \in Channels |->
        LET u24 == data[3 * i - 2] * 65536 + data[3 * i - 1] * 256 + data[3 * i]
        IN IF u24 >= 8388608 THEN u24 - 16777216 ELSE u24]

\* _append_dummy_frame: the frame of 0.0 on every channel
DummyFrame == [i \in Channels |-> 0]

\* the append loop leaving out the last channel
AppendFrameShort(h, hist, frame) ==
    [heap |-> [o \in Objects |-> IF o \in 1..(NumChannels - 1)
                                 THEN DequeAppend(h[o], frame[o], SerMaxLen)
                                 ELSE h[o]],
     pushed |-> [i \in Channels |-> IF i < NumChannels
                                    THEN Append(hist[i], frame[i]) ELSE hist[i]]]

\* for i in range(16): self.channel_queues[i].append(...)  (the loop of
\* _parse_valid_frame and of _append_dummy_frame), with the history
AppendFrame(h, hist, frame) ==
    [heap |-> [o \in Objects |-> IF o \in Channels
                                 THEN DequeAppend(h[o], frame[o], SerMaxLen)
                                 ELSE h[o]],
     pushed |-> [i \in Channels |-> Append(hist[i], frame[i])]]

ser_thread_rest == <<ser_is_running, ser_port, ser_batch, client_vars, not_serial>>

\* max(0, n)
NonNeg(n) == IF n > 0 THEN n ELSE 0

\* _read_loop: while self.is_running and self.serial_port:
ReadLoopCheck ==
    /\ ser_pc = "r_loop"
    /\ ser_pc' = IF ser_is_running /\ ser_port # "None" THEN "r_read" ELSE "dead"
    /\ UNCHANGED <<heap, state_lock, ser_buffer, ser_local, ser_reads, ser_spans, ser_mark,
                   ser_last_span, ser_pushed, ser_failed, ser_sync,
                   ser_thread_rest>>

\* read() returns data: local_buffer.extend(data)
ReadData ==
    /\ ser_pc = "r_read"
    /\ ser_port = "open"
    /\ ser_reads < MaxReads
    /\ \E data \in SerialChunks :
          /\ ser_local' = ser_local \o data
          /\ ser_pc' = IF Len(ser_local \o data) >= FlushLen THEN "r_flush" ELSE "r_loop"
    /\ ser_reads' = ser_reads + 1
    /\ UNCHANGED <<heap, state_lock, ser_buffer, ser_spans, ser_mark, ser_last_span,
                   ser_pushed, ser_failed, ser_sync,
                   ser_thread_rest>>

\* read() times out and returns nothing: time.sleep(0.001)
ReadEmpty ==
    /\ ser_pc = "r_read"
    /\ ser_port = "open"
    /\ ser_pc' = "r_loop"
    /\ UNCHANGED <<heap, state_lock, ser_buffer, ser_local, ser_reads, ser_spans, ser_mark,
                   ser_last_span, ser_pushed, ser_failed, ser_sync,
                   ser_thread_rest>>

\* read() raises (an I/O error of the device, or the port was closed):
\* except Exception: log, break; the thread ends
ReadRaises ==
    /\ ser_pc = "r_read"
    /\ ser_pc' = "dead"
    /\ ser_failed' = TRUE
    /\ UNCHANGED <<heap, state_lock, ser_buffer, ser_local, ser_reads, ser_spans, ser_mark,
                   ser_last_span, ser_pushed, ser_sync,
                   ser_thread_rest>>

\* with self.buffer_lock: self.buffer.extend(local_buffer);
\* local_buffer.clear(); _process_buffer is entered
Flush ==
    /\ ser_pc = "r_flush"
    /\ state_lock = "free"
    /\ state_lock' = "worker"
    /\ ser_buffer' = ser_buffer \o ser_local
    /\ ser_local' = <<>>
    /\ ser_sync' = [ser_sync EXCEPT
                       !.local = 0,
                       !.buffer = IF ser_sync.local > 0
                                  THEN Len(ser_buffer) + ser_sync.local ELSE @]
    /\ ser_pc' = "r_process"
    /\ UNCHANGED <<heap, ser_reads, ser_spans, ser_mark, ser_last_span, ser_pushed,
                   ser_failed, ser_thread_rest>>

\* _process_buffer: one evaluation of the while condition and, when it
\* holds, one pass of the loop body; a return releases buffer_lock
ProcessBuffer ==
    /\ ser_pc = "r_process"
    /\ LET head_idx == IndexOf(ser_buffer, FRAME_HEAD, 1)
           buf1 == SubSeq(ser_buffer, head_idx, Len(ser_buffer))
           tail_idx == IndexOf(buf1, FRAME_TAIL, 2)
           raw_payload == SubSeq(buf1, 2, tail_idx - 1)
           unescaped == UnescapeData(raw_payload)
           appended == AppendFrame(heap, ser_pushed,
                                   IF Len(unescaped) = FRAME_SIZE
                                   THEN ParseValidFrame(unescaped)
                                   ELSE DummyFrame)
       IN IF Len(ser_buffer) < FRAME_SIZE + 2
          THEN /\ ser_pc' = "r_loop"
               /\ state_lock' = "free"
               /\ UNCHANGED <<heap, ser_buffer, ser_spans, ser_mark, ser_last_span,
                              ser_pushed, ser_sync>>
          ELSE IF head_idx = 0
          THEN /\ ser_buffer' = <<>>
               /\ ser_sync' = [ser_sync EXCEPT !.buffer = 0]
               /\ ser_pc' = "r_loop"
               /\ state_lock' = "free"
               /\ UNCHANGED <<heap, ser_spans, ser_mark, ser_last_span, ser_pushed>>
          ELSE IF tail_idx = 0
          THEN /\ ser_buffer' = IF Len(buf1) > FRAME_SIZE * 2 THEN Tail1(buf1) ELSE buf1
               /\ ser_sync' = [ser_sync EXCEPT
                                  !.buffer = NonNeg(@ - (Len(ser_buffer) - Len(ser_buffer')))]
               /\ ser_pc' = "r_loop"
               /\ state_lock' = "free"
               /\ UNCHANGED <<heap, ser_spans, ser_mark, ser_last_span, ser_pushed>>
          ELSE /\ ser_buffer' = SubSeq(buf1, tail_idx + 1, Len(buf1))
               /\ heap' = appended.heap
               /\ ser_pushed' = appended.pushed
               /\ ser_spans' = ser_spans + 1
               /\ UNCHANGED ser_mark
               /\ ser_last_span' = raw_payload
               /\ ser_sync' = [ser_sync EXCEPT
                                  !.buffer = NonNeg(@ - (head_idx - 1 + tail_idx)),
                                  !.stale = @ \/ head_idx < ser_sync.buffer]
               /\ UNCHANGED <<ser_pc, state_lock>>
    /\ UNCHANGED <<ser_local, ser_reads, ser_failed, ser_thread_rest>>

(***************************************************************************)
(* Serial_Receiver: the calls of the client thread.  open() is called on   *)
(* a receiver whose port is not open and whose read thread is not alive.   *)
(***************************************************************************)
ser_hist == <<ser_reads, ser_spans, ser_last_span, ser_pushed>>

\* open(): serial.Serial(...) succeeds; reset_internal_buffers();
\* is_running = True; the read thread starts
Open ==
    /\ receiver = "Serial"
    /\ client_pc = "idle"
    /\ ser_port # "open"
    /\ ser_pc = "dead"
    /\ state_lock = "free"
    /\ ser_port' = "open"
    /\ ser_buffer' = <<>>
    /\ heap' = [o \in Objects |-> IF o \in Channels THEN <<>> ELSE heap[o]]
    /\ ser_is_running' = TRUE
    /\ ser_pc' = "r_loop"
    /\ ser_failed' = FALSE
    /\ ser_mark' = ser_spans
    /\ ser_local' = <<>>
    /\ ser_sync' = [local |-> 0, buffer |-> 0, stale |-> FALSE]
    /\ UNCHANGED <<state_lock, ser_batch, ser_hist, client_vars, not_serial>>

\* close(): self.is_running = False
CloseSet ==
    /\ receiver = "Serial"
    /\ client_pc = "idle"
    /\ ser_port = "open"
    /\ ser_is_running' = FALSE
    /\ client_pc' = "close_join"
    /\ UNCHANGED <<heap, state_lock, ser_port, ser_pc, ser_buffer, ser_local,
                   ser_batch, ser_hist, ser_mark, ser_failed, ser_sync,
                   snap_build, snapshot, not_serial>>

\* close(): the join returns (the thread ended, or the 1.0 s timeout
\* passed); the port is closed
CloseJoin ==
    /\ client_pc = "close_join"
    /\ ser_port' = "closed"
    /\ client_pc' = "idle"
    /\ UNCHANGED <<heap, state_lock, ser_is_running, ser_pc, ser_buffer, ser_local,
                   ser_batch, ser_hist, ser_mark, ser_failed, ser_sync,
                   snap_build, snapshot, not_serial>>

\* pop_new_data(): with self.buffer_lock: None (here <<>>) if channel 0 is
\* empty, else the rows of all queues, and every queue is cleared
PopNewData ==
    /\ receiver = "Serial"
    /\ client_pc = "idle"
    /\ state_lock = "free"
    /\ IF heap[1] = <<>>
       THEN /\ ser_batch' = <<>>
            /\ UNCHANGED heap
       ELSE /\ ser_batch' = [i \in Channels |-> heap[i]]
            /\ heap' = [o \in Objects |-> IF o \in Channels THEN <<>> ELSE heap[o]]
    /\ ser_mark' = ser_spans
    /\ UNCHANGED <<state_lock, ser_is_running, ser_port, ser_pc, ser_buffer,
                   ser_local, ser_hist, ser_failed, ser_sync, client_vars,
                   not_serial>>

\* reset_internal_buffers() on a receiver whose port is open:
\* with self.buffer_lock: self.buffer.clear(); reset_input_buffer();
\* every queue is cleared.  What the read thread holds in local_buffer
\* was read before.
ResetInternalBuffers ==
    /\ receiver = "Serial"
    /\ client_pc = "idle"
    /\ ser_port = "open"
    /\ state_lock = "free"
    /\ ser_buffer' = <<>>
    /\ heap' = [o \in Objects |-> IF o \in Channels THEN <<>> ELSE heap[o]]
    /\ ser_mark' = ser_spans
    /\ ser_sync' = [ser_sync EXCEPT !.local = Len(ser_local), !.buffer = 0]
    /\ UNCHANGED <<state_lock, ser_is_running, ser_port, ser_pc, ser_local,
                   ser_batch, ser_hist, ser_failed, client_vars, not_serial>>

NextSerial ==
    \/ ReadLoopCheck \/ ReadData \/ ReadEmpty \/ ReadRaises \/ Flush
    \/ ProcessBuffer
    \/ Open \/ CloseSet \/ CloseJoin \/ PopNewData
    \/ GetEnter \/ GetCopy \/ GetReturn

InitSerial == receiver = "Serial" /\ InitAllVars

SpecSerial == InitSerial /\ [][NextSerial]_vars

\* the receiver under a MultiSourceController, whose start() resets the
\* buffers of the running receiver
SpecSync == InitSerial /\ [][NextSerial \/ ResetInternalBuffers]_vars

\* C39 (as claimed): once reset_internal_buffers() has returned, no sample
\* made of bytes that the read thread had read before the reset is
\* appended to the channel queues.
C39_ResetDropsEarlierBytes ==
    ~ser_sync.stale

\* C7 (as claimed): when read() raised while the receiver is running, the
\* read thread does not end for good: it stays alive (cleaning up, waiting,
\* retrying).
C7_SerialRetriesAfterIOError ==
    (ser_failed /\ ser_is_running) => ser_pc # "dead"

\* C10: outside the read thread's critical section all channel queues have
\* the same length, and so have the queues of a returned snapshot and the
\* rows of a popped batch; every channel has received exactly one sample per
\* consumed span, and the samples of the last span are the decoded counts
\* when its unescaped payload has FRAME_SIZE bytes and 0 otherwise.
C10_SerialChannelParity ==
    /\ state_lock # "worker" =>
          \A i, j \in Channels : Len(heap[i]) = Len(heap[j])
    /\ snapshot # <<>> =>
          \A i, j \in Channels : Len(heap[snapshot[i]]) = Len(heap[snapshot[j]])
    /\ ser_batch # <<>> =>
          \A i, j \in Channels : Len(ser_batch[i]) = Len(ser_batch[j])
    /\ \A i \in Channels : Len(ser_pushed[i]) = ser_spans
    /\ ser_spans > 0 =>
          \A i \in Channels :
              ser_pushed[i][ser_spans] =
                  (IF Len(UnescapeData(ser_last_span)) = FRAME_SIZE
                   THEN ParseValidFrame(UnescapeData(ser_last_span))[i]
                   ELSE 0)

\* C10 witness: a valid span and then a span of the wrong length were
\* consumed; a reader holds the lock and sees queues of equal length.
C10_Witness ==
    /\ receiver = "Serial"
    /\ client_pc = "get_copy"
    /\ ser_spans >= 2
    /\ Len(UnescapeData(ser_last_span)) # FRAME_SIZE
    /\ \E k \in 1..(ser_spans - 1) : ser_pushed[1][k] # 0
    /\ Len(heap[1]) = SerMaxLen

(***************************************************************************)
(* Replay.  The file holds RepPackets whole packets and the beginning of   *)
(* one more.  Records are numbered from 0 as in the source; RepFile[k] is  *)
(* record k - 1.                                                           *)
(***************************************************************************)
\* whole packets in the file
RepPackets == 2

not_rep == <<receiver, tcp_vars, ser_vars, other_vars>>

\* the uint24 of channel i in packet k of the file (every second packet
\* holds negative counts)
RepFile ==
    [k \in 1..RepPackets |->
        [i \in Channels |-> IF k % 2 = 0 THEN 16777216 - (10 * k + i)
                            ELSE 10 * k + i]]

\* len(self._mmapped_file)
RepFileLen == RepPackets * PACKET_SIZE + ShortRead

\* self._total_samples: 0 until __enter__ has mapped the file
TotalSamples == IF rep_mmap = "None" THEN 0 ELSE RepFileLen \div PACKET_SIZE

\* _extract_voltage: if uint24_value & (1 << 23) the value less 1 << 24,
\* else the value: the signed 24-bit count (the voltage is this count times
\* LSB * 1000)
ExtractVoltage(uint24_value) ==
    IF (uint24_value \div 8388608) % 2 = 1 THEN uint24_value - 16777216
    ELSE uint24_value

RepAlive(t) == rep_pc[t] # "dead"

rep_range == <<rep_start_sample, rep_end_sample>>
rep_load_vars == <<rep_cache, rep_is_data_loaded, rep_seg>>
rep_hist == <<rep_last, rep_count, rep_late, rep_bad_call>>

rep_client_rest == <<rep_mmap, rep_isLoop, rep_is_running, rep_stop_event,
                     rep_worker_thread, rep_raised, rep_stop_called, rep_range,
                     rep_call, rep_load_vars, client_vars, not_rep>>

\* _receive_data_loop: current_offset and end_offset are computed from
\* _start_sample and _end_sample when the thread begins
RepInit(t) ==
    /\ rep_pc[t] = "p_init"
    /\ rep_offset' = [rep_offset EXCEPT ![t] = rep_start_sample * PACKET_SIZE]
    /\ rep_end_off' = [rep_end_off EXCEPT ![t] = rep_end_sample * PACKET_SIZE]
    /\ rep_pc' = [rep_pc EXCEPT ![t] = "p_loop"]
    /\ UNCHANGED <<heap, state_lock, rep_packet, rep_chan, rep_hist, rep_client_rest>>

\* the test that lets one more record through
SegmentEndedLate(current_offset, end_offset) == current_offset > end_offset
\* if current_offset >= end_offset:
SegmentEnded(current_offset, end_offset) == current_offset >= end_offset

\* a wrap to the beginning of the file
WrapOffsetFile(start_sample) == 0 * start_sample
\* current_offset = self._start_sample * self.PACKET_SIZE
WrapOffset(start_sample) == start_sample * PACKET_SIZE

\* _receive_data_loop: the while test, the end-of-segment test, the
\* end-of-file test (len() of a closed map raises ValueError, which
\* _worker_loop catches) and the read of the next packet
RepLoop(t) ==
    /\ rep_pc[t] = "p_loop"
    /\ LET at_end == SegmentEnded(rep_offset[t], rep_end_off[t])
           current_offset == IF at_end /\ rep_isLoop
                             THEN WrapOffset(rep_start_sample)
                             ELSE rep_offset[t]
       IN IF rep_stop_event
             \/ (at_end /\ ~rep_isLoop)
             \/ rep_mmap = "closed"
             \/ current_offset + PACKET_SIZE > RepFileLen
          THEN /\ rep_pc' = [rep_pc EXCEPT ![t] = "p_finally"]
               /\ rep_offset' = [rep_offset EXCEPT ![t] = 0]
               /\ rep_end_off' = [rep_end_off EXCEPT ![t] = 0]
               /\ UNCHANGED <<rep_packet, rep_chan>>
          ELSE /\ rep_packet' = [rep_packet EXCEPT
                                    ![t] = current_offset \div PACKET_SIZE + 1]
               /\ rep_offset' = [rep_offset EXCEPT ![t] = current_offset + PACKET_SIZE]
               /\ rep_chan' = [rep_chan EXCEPT ![t] = 1]
               /\ rep_pc' = [rep_pc EXCEPT ![t] = "p_append"]
               /\ UNCHANGED rep_end_off
    /\ rep_late' = IF rep_pc'[t] = "p_append" /\ rep_late[t] >= 0
                   THEN [rep_late EXCEPT ![t] = Min(@ + 1, 2)]
                   ELSE rep_late
    /\ UNCHANGED <<heap, state_lock, rep_last, rep_count, rep_bad_call,
                   rep_client_rest>>

\* _process_packet_for_playback passes the queues as destination
\* (is_queue=True); the alternative is the cache
PlaybackIntoCache == FALSE
PlaybackIntoQueues == TRUE

\* _parse_and_append: emg_dest[i].append(voltage) for the next i (no lock
\* is held); after the last channel the worker sleeps and loops (the
\* locals it no longer reads are zeroed)
RepAppend(t) ==
    /\ rep_pc[t] = "p_append"
    /\ LET i == rep_chan[t]
           voltage == ExtractVoltage(RepFile[rep_packet[t]][i])
       IN /\ IF PlaybackIntoQueues
             THEN /\ heap' = [heap EXCEPT ![emg_data_queues[i]] =
                                             DequeAppend(@, voltage, QueueLen)]
                  /\ UNCHANGED rep_cache
             ELSE /\ rep_cache' = IF rep_cache = <<>> THEN rep_cache
                                  ELSE [rep_cache EXCEPT ![i] = Append(@, voltage)]
                  /\ UNCHANGED heap
          /\ rep_last' = [rep_last EXCEPT ![i] = rep_packet[t] - 1]
          /\ rep_count' = [rep_count EXCEPT ![i] = Min(@ + 1, RepPackets + 1)]
          /\ IF i < NumChannels
             THEN /\ rep_chan' = [rep_chan EXCEPT ![t] = i + 1]
                  /\ UNCHANGED <<rep_pc, rep_packet>>
             ELSE /\ rep_pc' = [rep_pc EXCEPT ![t] = "p_loop"]
                  /\ rep_chan' = [rep_chan EXCEPT ![t] = 0]
                  /\ rep_packet' = [rep_packet EXCEPT ![t] = 0]
    /\ UNCHANGED <<state_lock, rep_offset, rep_end_off, rep_mmap, rep_isLoop,
                   rep_is_running, rep_stop_event, rep_worker_thread, rep_raised,
                   rep_stop_called, rep_range, rep_call, rep_is_data_loaded,
                   rep_seg, rep_late, rep_bad_call, client_vars, not_rep>>

\* _worker_loop: finally: with self._state_lock: self._is_running = False;
\* the thread ends
RepFinally(t) ==
    /\ rep_pc[t] = "p_finally"
    /\ state_lock = "free"
    /\ rep_is_running' = FALSE
    /\ rep_pc' = [rep_pc EXCEPT ![t] = "dead"]
    /\ UNCHANGED <<heap, state_lock, rep_mmap, rep_isLoop, rep_stop_event,
                   rep_worker_thread, rep_offset, rep_packet, rep_chan,
                   rep_end_off, rep_raised, rep_stop_called, rep_range, rep_call,
                   rep_hist, rep_load_vars, client_vars, not_rep>>

RepWorker(t) == RepInit(t) \/ RepLoop(t) \/ RepAppend(t) \/ RepFinally(t)

rep_worker_locals == <<rep_offset, rep_packet, rep_chan, rep_end_off>>

\* __enter__: the file is opened and mapped
RepEnter ==
    /\ receiver = "Replay"
    /\ client_pc = "idle"
    /\ rep_mmap = "None"
    /\ rep_mmap' = "open"
    /\ rep_end_sample' = IF rep_end_sample = -1 THEN RepFileLen \div PACKET_SIZE
                         ELSE rep_end_sample
    /\ UNCHANGED <<heap, state_lock, rep_isLoop, rep_is_running, rep_stop_event,
                   rep_worker_thread, rep_pc, rep_worker_locals, rep_raised,
                   rep_stop_called, rep_start_sample, rep_call, rep_hist,
                   rep_load_vars, client_vars, not_rep>>

\* the thread object a start() creates: thread objects are numbered in
\* the order of their creation, at most MaxThreads are created
RepFreshThread == rep_worker_thread + 1

\* start(): with self._state_lock: return if _is_running; raise if the file
\* is not mapped; else clear the event, set _is_running and start a thread
RepStart ==
    /\ receiver = "Replay"
    /\ client_pc = "idle"
    /\ state_lock = "free"
    /\ rep_stop_called' = FALSE
    /\ IF rep_is_running
       THEN UNCHANGED <<rep_stop_event, rep_is_running, rep_worker_thread,
                        rep_pc, rep_raised, rep_hist>>
       ELSE IF rep_mmap = "None"
       THEN /\ rep_raised' = TRUE
            /\ UNCHANGED <<rep_stop_event, rep_is_running, rep_worker_thread,
                           rep_pc, rep_hist>>
       ELSE /\ rep_worker_thread < MaxThreads
            /\ rep_stop_event' = FALSE
            /\ rep_is_running' = TRUE
            /\ rep_worker_thread' = RepFreshThread
            /\ rep_pc' = [rep_pc EXCEPT ![RepFreshThread] = "p_init"]
            /\ rep_last' = [i \in Channels |-> -1]
            /\ rep_count' = [i \in Channels |-> 0]
            /\ rep_late' = [rep_late EXCEPT ![RepFreshThread] = -1]
            /\ UNCHANGED <<rep_raised, rep_bad_call>>
    /\ UNCHANGED <<heap, state_lock, rep_mmap, rep_isLoop, rep_worker_locals,
                   rep_range, rep_call, rep_load_vars, client_vars, not_rep>>

\* where stop() returns to: its caller's caller, or the rest of the call
\* that ran it
RepStopReturn == IF rep_call.op = "none" THEN "idle" ELSE "rcall_end"

\* stop(): with self._state_lock: if not self._is_running: return
RepStopCheck ==
    /\ receiver = "Replay"
    /\ client_pc = "idle"
    /\ state_lock = "free"
    /\ rep_stop_called' = TRUE
    /\ client_pc' = IF rep_is_running THEN "rstop_set" ELSE "idle"
    /\ UNCHANGED <<heap, state_lock, rep_mmap, rep_isLoop, rep_is_running,
                   rep_stop_event, rep_worker_thread, rep_pc, rep_worker_locals,
                   rep_raised, rep_range, rep_call, rep_hist, rep_load_vars,
                   snap_build, snapshot, not_rep>>

\* stop(): self._stop_event.set()
RepStopSet ==
    /\ client_pc = "rstop_set"
    /\ rep_stop_event' = TRUE
    /\ client_pc' = "rstop_join"
    /\ rep_late' = [t \in Threads |->
                      IF RepAlive(t) /\ rep_late[t] = -1 THEN 0 ELSE rep_late[t]]
    /\ UNCHANGED <<heap, state_lock, rep_mmap, rep_isLoop, rep_is_running,
                   rep_worker_thread, rep_pc, rep_worker_locals, rep_raised,
                   rep_stop_called, rep_range, rep_call, rep_last, rep_count,
                   rep_bad_call, rep_load_vars, snap_build, snapshot, not_rep>>

\* stop(): the join is skipped or returns because the worker is not alive;
\* self._is_running = False
RepStopJoined ==
    /\ client_pc = "rstop_join"
    /\ IF rep_worker_thread = 0 THEN TRUE ELSE ~RepAlive(rep_worker_thread)
    /\ rep_is_running' = FALSE
    /\ client_pc' = RepStopReturn
    /\ UNCHANGED <<heap, state_lock, rep_mmap, rep_isLoop, rep_stop_event,
                   rep_worker_thread, rep_pc, rep_worker_locals, rep_raised,
                   rep_stop_called, rep_range, rep_call, rep_hist,
                   rep_load_vars, snap_build, snapshot, not_rep>>

\* stop(): join(timeout=2.0) gives up on a live worker;
\* self._is_running = False
RepStopJoinTimeout ==
    /\ client_pc = "rstop_join"
    /\ IF rep_worker_thread = 0 THEN FALSE ELSE RepAlive(rep_worker_thread)
    /\ rep_is_running' = FALSE
    /\ client_pc' = RepStopReturn
    /\ UNCHANGED <<heap, state_lock, rep_mmap, rep_isLoop, rep_stop_event,
                   rep_worker_thread, rep_pc, rep_worker_locals, rep_raised,
                   rep_stop_called, rep_range, rep_call, rep_hist,
                   rep_load_vars, snap_build, snapshot, not_rep>>

\* the life cycle of Replay, every outcome of the join included
NextReplayLife ==
    \/ \E t \in Threads : RepWorker(t)
    \/ RepEnter \/ RepStart
    \/ RepStopCheck \/ RepStopSet \/ RepStopJoined \/ RepStopJoinTimeout

\* Replay with a reader; the worker ends within the two seconds stop()
\* waits for it (its sleeps are no longer than one playback interval)
NextReplay ==
    \/ \E t \in Threads : RepWorker(t)
    \/ RepEnter \/ RepStart
    \/ RepStopCheck \/ RepStopSet \/ RepStopJoined
    \/ GetEnter \/ GetCopy \/ GetReturn

InitReplay ==
    /\ receiver = "Replay"
    /\ InitObjects /\ InitTCPVars /\ InitSerialVars /\ InitOtherVars
    /\ \E isLoop \in BOOLEAN : InitReplayVars(isLoop)

SpecReplay == InitReplay /\ [][NextReplay]_vars

(***************************************************************************)
(* Replay: the playback control API (play_segment, play_from,              *)
(* restart_playback, __exit__), each of which runs stop() first, and the   *)
(* load mode (load_all_data, get_segment).                                 *)
(***************************************************************************)
\* the calls that run stop() and then go on: play_segment(s, e),
\* play_from(s) (e is _total_samples), restart_playback() (0 and
\* _total_samples) and __exit__
RepCalls ==
    [op : {"play_segment"}, s : 0..RepPackets, e : 0..(RepPackets + 1)]
        \cup [op : {"play_from"}, s : (-1)..RepPackets, e : {TotalSamples}]
        \cup [op : {"restart_playback"}, s : {0}, e : {TotalSamples}]
        \cup [op : {"exit"}, s : {0}, e : {0}]

\* the test without the upper limit
RepValidNoLimit(c) ==
    c.op \in {"play_segment", "play_from"} => (0 <= c.s /\ c.s < c.e)

\* the arguments the error messages of play_from and play_segment name:
\* a start outside 0 .. _total_samples - 1, a segment that is empty,
\* reversed or beyond _total_samples
RepRangeError(c) ==
    \/ c.op = "play_from" /\ (c.s < 0 \/ c.s >= TotalSamples)
    \/ c.op = "play_segment" /\ (c.s < 0 \/ c.s >= c.e \/ c.e > TotalSamples)

\* if not (0 <= start_sample < end_sample <= self._total_samples): return
\* (play_from tests 0 <= start_sample < self._total_samples)
RepValid(c) ==
    c.op \in {"play_segment", "play_from"} => (0 <= c.s /\ c.s < c.e /\ c.e <= TotalSamples)

\* play_segment, play_from, restart_playback, __exit__: the test of the
\* arguments and the first statement of stop()
RepCall ==
    /\ receiver = "Replay"
    /\ client_pc = "idle"
    /\ state_lock = "free"
    /\ \E c \in RepCalls :
          /\ c.op = "exit" => rep_mmap = "open"
          /\ c.op # "exit" => rep_worker_thread < MaxThreads
          /\ IF RepValid(c)
             THEN /\ rep_call' = c
                  /\ rep_stop_called' = TRUE
                  /\ client_pc' = IF rep_is_running THEN "rstop_set" ELSE "rcall_end"
             ELSE UNCHANGED <<rep_call, rep_stop_called, client_pc>>
          /\ rep_bad_call' = IF RepRangeError(c) THEN 1 + (rep_bad_call % 2) ELSE 0
    /\ UNCHANGED <<heap, state_lock, rep_mmap, rep_isLoop, rep_is_running,
                   rep_stop_event, rep_worker_thread, rep_pc, rep_worker_locals,
                   rep_raised, rep_range, rep_last, rep_count, rep_late,
                   rep_load_vars, snap_build, snapshot, not_rep>>

\* after stop(): _start_sample and _end_sample are set and start() is
\* called (which raises if the file was never mapped); __exit__ closes the
\* map and the file
RepCallEnd ==
    /\ client_pc = "rcall_end"
    /\ client_pc' = "idle"
    /\ rep_call' = [op |-> "none", s |-> 0, e |-> 0]
    /\ IF rep_call.op = "exit"
       THEN /\ rep_mmap' = "closed"
            /\ UNCHANGED <<rep_range, rep_stop_called, rep_stop_event,
                           rep_is_running, rep_worker_thread, rep_pc, rep_raised,
                           rep_hist>>
       ELSE /\ state_lock = "free"
            /\ rep_start_sample' = rep_call.s
            /\ rep_end_sample' = rep_call.e
            /\ rep_stop_called' = FALSE
            /\ UNCHANGED rep_mmap
            /\ IF rep_is_running
               THEN UNCHANGED <<rep_stop_event, rep_is_running, rep_worker_thread,
                                rep_pc, rep_raised, rep_hist>>
               ELSE IF rep_mmap = "None"
               THEN /\ rep_raised' = TRUE
                    /\ UNCHANGED <<rep_stop_event, rep_is_running,
                                   rep_worker_thread, rep_pc, rep_hist>>
               ELSE /\ rep_stop_event' = FALSE
                    /\ rep_is_running' = TRUE
                    /\ rep_worker_thread' = RepFreshThread
                    /\ rep_pc' = [rep_pc EXCEPT ![RepFreshThread] = "p_init"]
                    /\ rep_last' = [i \in Channels |-> -1]
                    /\ rep_count' = [i \in Channels |-> 0]
                    /\ rep_late' = [rep_late EXCEPT ![RepFreshThread] = -1]
                    /\ UNCHANGED <<rep_raised, rep_bad_call>>
    /\ UNCHANGED <<heap, state_lock, rep_isLoop, rep_worker_locals, rep_load_vars,
                   snap_build, snapshot, not_rep>>

\* load_all_data: while offset + self.PACKET_SIZE <= len(self._mmapped_file):
\* the numbers (from 1) of the packets from offset on that are cached
RECURSIVE PacketsFrom(_)
PacketsFrom(offset) ==
    IF offset + PACKET_SIZE <= RepFileLen
    THEN <<offset \div PACKET_SIZE + 1>> \o PacketsFrom(offset + PACKET_SIZE)
    ELSE <<>>

\* load_all_data, all of it under _state_lock: nothing if the data is
\* loaded; RuntimeError if the file was never mapped; else the caches are
\* emptied and every whole packet is appended (len() of a closed map raises
\* ValueError after the caches were emptied)
RepLoad ==
    /\ receiver = "Replay"
    /\ client_pc = "idle"
    /\ state_lock = "free"
    /\ IF rep_is_data_loaded
       THEN UNCHANGED <<rep_cache, rep_is_data_loaded, rep_raised>>
       ELSE IF rep_mmap = "None"
       THEN /\ rep_raised' = TRUE
            /\ UNCHANGED <<rep_cache, rep_is_data_loaded>>
       ELSE IF rep_mmap = "closed"
       THEN /\ rep_raised' = TRUE
            /\ rep_cache' = [i \in Channels |-> <<>>]
            /\ UNCHANGED rep_is_data_loaded
       ELSE /\ rep_cache' =
                  [i \in Channels |->
                      [k \in 1..Len(PacketsFrom(0)) |->
                          ExtractVoltage(RepFile[PacketsFrom(0)[k]][i])]]
            /\ rep_is_data_loaded' = TRUE
            /\ UNCHANGED rep_raised
    /\ UNCHANGED <<heap, state_lock, rep_mmap, rep_isLoop, rep_is_running,
                   rep_stop_event, rep_worker_thread, rep_pc, rep_worker_locals,
                   rep_stop_called, rep_range, rep_call, rep_hist, rep_seg,
                   client_vars, not_rep>>

\* a slice that leaves out its last element
PySliceShort(list, start, end) == SubSeq(list, start + 1, end - 1)
\* ch_data[start_sample:end_sample] for 0 <= start_sample < end_sample <= len
PySlice(list, start, end) == SubSeq(list, start + 1, end)

\* the ranges get_segment is called with: a negative start, an end beyond
\* the file, and the last record
SegArgs == {<<-1, 1>>, <<0, RepPackets + 1>>, <<RepPackets - 1, RepPackets>>}

\* get_segment(start_sample, end_sample)
RepGetSegment ==
    /\ receiver = "Replay"
    /\ client_pc = "idle"
    /\ \E a \in SegArgs :
          LET ss == a[1]
              ee == a[2]
          IN rep_seg' = [s |-> ss, e |-> ee, loaded |-> rep_is_data_loaded,
                      ret |-> IF ~rep_is_data_loaded THEN <<>>
                              ELSE IF ~(0 <= ss /\ ss < ee /\ ee <= TotalSamples)
                              THEN <<>>
                              ELSE [i \in Channels |-> PySlice(rep_cache[i], ss, ee)]]
    /\ UNCHANGED <<heap, state_lock, rep_mmap, rep_isLoop, rep_is_running,
                   rep_stop_event, rep_worker_thread, rep_pc, rep_worker_locals,
                   rep_raised, rep_stop_called, rep_range, rep_call, rep_hist,
                   rep_cache, rep_is_data_loaded, client_vars, not_rep>>

\* Replay's playback control; the worker ends within the two seconds
\* stop() waits for it
NextPlay ==
    \/ \E t \in Threads : RepWorker(t)
    \/ RepEnter \/ RepStart
    \/ RepStopCheck \/ RepStopSet \/ RepStopJoined
    \/ RepCall \/ RepCallEnd

\* every worker that can run does run, and a call that was entered runs to
\* its end
SpecPlay ==
    /\ InitReplay
    /\ [][NextPlay]_vars
    /\ \A t \in Threads : WF_vars(RepWorker(t))
    /\ WF_vars(RepStopSet \/ RepStopJoined \/ RepCallEnd)

\* the same with every outcome of the join
SpecPlayLife == InitReplay /\ [][NextPlay \/ RepStopJoinTimeout]_vars

\* playback control and load mode together
SpecLoad == InitReplay /\ [][NextPlay \/ RepLoad \/ RepGetSegment]_vars

C23_AtMostOnePlaybackThread ==
    Cardinality({t \in Threads : rep_pc[t] \in {"p_loop", "p_append"}}) <= 1

\* C24: when __exit__ closes the mapped file, no playback worker is inside
\* its read loop (so that the close never leaves a worker reading a closed
\* map).
C24_WorkerStoppedBeforeClose ==
    [][(rep_mmap = "open" /\ rep_mmap' = "closed") =>
          ~\E t \in Threads : rep_pc'[t] \in {"p_loop", "p_append"}]_vars

\* C36: a play_from whose start is outside [0, total) and a play_segment
\* whose arguments violate 0 <= start < end <= total return without side
\* effects: a running playback is not stopped (the event, the running
\* flag, the thread and its position stay as they are), and the range, the
\* loop flag and the buffers are unchanged.
C36_InvalidRangeRejected ==
    [][(rep_bad_call' # 0 /\ rep_bad_call' # rep_bad_call) =>
          UNCHANGED <<heap, rep_mmap, rep_isLoop, rep_is_running, rep_stop_event,
                      rep_worker_thread, rep_pc, rep_worker_locals, rep_range,
                      rep_call, rep_stop_called, client_pc>>]_vars

\* C36 witness: a call with a bad range was made while a worker was
\* appending a record of the segment a valid play_segment had set.
C36_Witness ==
    /\ rep_bad_call # 0
    /\ rep_is_running /\ ~rep_stop_event
    /\ rep_start_sample = 1 /\ rep_end_sample = 2
    /\ \E t \in Threads : rep_pc[t] = "p_append"

\* C34: cancellation is checked every iteration: a playback worker reads
\* at most one further record once a stop() has set the event during its
\* life (the record it was about to read; at its next check of the event it
\* leaves the loop).
C34_AtMostOneFrameAfterStop ==
    \A t \in Threads : rep_late[t] <= 1

\* C25: once the data is loaded, every EMG cache channel holds one sample
\* per whole record of the file (floor(len / 66) = get_total_samples(), the
\* trailing partial record left out), sample k being the decoded value of
\* record k; and the last get_segment(s, e) returned, for a valid range
\* 0 <= s < e <= total, the e - s cached samples s..e-1 of every channel,
\* and the empty list for an invalid range or when the data was not loaded
\* at the call.
C25_CacheAndSegments ==
    /\ rep_is_data_loaded =>
          /\ TotalSamples = RepFileLen \div PACKET_SIZE
          /\ \A i \in Channels :
                /\ Len(rep_cache[i]) = TotalSamples
                /\ \A k \in 1..TotalSamples :
                      rep_cache[i][k] = ExtractVoltage(RepFile[k][i])
    /\ rep_seg.ret # <<>> =>
          /\ rep_is_data_loaded
          /\ 0 <= rep_seg.s /\ rep_seg.s < rep_seg.e /\ rep_seg.e <= TotalSamples
          /\ \A i \in Channels :
                /\ Len(rep_seg.ret[i]) = rep_seg.e - rep_seg.s
                /\ \A k \in 1..(rep_seg.e - rep_seg.s) :
                      rep_seg.ret[i][k] = rep_cache[i][rep_seg.s + k]
    /\ rep_seg.ret = <<>> =>
          \/ ~rep_seg.loaded
          \/ ~(0 <= rep_seg.s /\ rep_seg.s < rep_seg.e /\ rep_seg.e <= TotalSamples)

\* C25 witness: the data is loaded and get_segment returned the last
\* record of every channel
C25_Witness ==
    /\ rep_is_data_loaded
    /\ rep_seg.s = RepPackets - 1 /\ rep_seg.e = RepPackets
    /\ rep_seg.ret = [i \in Channels |-> <<ExtractVoltage(RepFile[RepPackets][i])>>]

\* C26: once the data is loaded no step changes the cache: not a second
\* load_all_data, not start, stop, play_from, play_segment,
\* restart_playback or get_segment, and not the playback worker.
C26_CacheImmutable ==
    [][rep_is_data_loaded => (rep_cache' = rep_cache /\ rep_is_data_loaded')]_vars

\* C26 witness: data loaded, then a segment was played by a worker that
\* has pushed its records, and a segment was fetched
C26_Witness ==
    /\ rep_is_data_loaded
    /\ rep_range = <<1, 2>>
    /\ \A i \in Channels : rep_count[i] = 1
    /\ rep_seg.ret # <<>>
    /\ Len(rep_cache[1]) = RepPackets

(***************************************************************************)
(* The three receivers with their readers.                                 *)
(***************************************************************************)
Spec ==
    (InitTCP \/ InitSerial \/ InitReplay) /\ [][NextTCP \/ NextSerial \/ NextReplay]_vars

\* maxlen of the live deques of the receiver under test
Capacity == IF receiver = "Serial" THEN SerMaxLen ELSE QueueLen

\* C2: (a) no deque of a returned snapshot is longer than the capacity;
\* (b) as long as the client keeps a returned snapshot, no step (a push of
\* the worker in particular) changes the items of its deques; (c) every
\* deque get_emg_data creates holds the items its live deque has at the
\* time of the copy; (d) no step of a get_emg_data call changes a live
\* deque.
C2_SnapshotIsolatedCopy ==
    /\ [](snapshot # <<>> =>
            \A i \in Channels : Len(heap[snapshot[i]]) <= Capacity)
    /\ [][(snapshot # <<>> /\ snapshot' = snapshot) =>
            \A i \in Channels : heap'[snapshot[i]] = heap[snapshot[i]]]_vars
    /\ [][Len(snap_build') > Len(snap_build) =>
            heap'[snap_build'[Len(snap_build')]] =
                heap[emg_data_queues[Len(snap_build')]]]_vars
    /\ [][(client_pc' # client_pc /\ "get_copy" \in {client_pc, client_pc'})
              \/ snap_build' # snap_build =>
            \A i \in Channels :
                heap'[emg_data_queues[i]] = heap[emg_data_queues[i]]]_vars

\* C2 witness: get_emg_data has returned a snapshot with a full deque, and
\* a later push has made the live deque differ from the snapshot's.
C2_Witness ==
    /\ snapshot # <<>>
    /\ client_pc = "idle"
    /\ \E i \in Channels :
          /\ Len(heap[snapshot[i]]) = Capacity
          /\ heap[snapshot[i]] # heap[emg_data_queues[i]]

(***************************************************************************)
(* The life cycles of TCP_Receiver and Replay (start, stop and the         *)
(* workers, without a reader), with fairness: every worker that can run    *)
(* does run and a stop() that was entered runs to its end; for TCP a       *)
(* connect attempt eventually succeeds and the peer then delivers a whole  *)
(* packet.                                                                 *)
(***************************************************************************)
SpecLife ==
    /\ (InitTCP \/ InitReplay)
    /\ [][NextTCPLife \/ NextReplayLife]_vars
    /\ SF_vars(\E t \in Threads : Worker(t))
    /\ SF_vars(\E t \in Threads : ConnectOk(t))
    /\ SF_vars(\E t \in Threads : RecvPacket(t))
    /\ \A t \in Threads : WF_vars(RepWorker(t))
    /\ WF_vars(StopClose \/ StopJoined \/ StopJoinTimeout)
    /\ WF_vars(RepStopSet \/ RepStopJoined \/ RepStopJoinTimeout)

\* C6 (as claimed): (a) a stop() on a TCP_Receiver whose event is set and
\* whose worker is not alive, and a stop() on a Replay that is not running,
\* change nothing of the receiver; (b) once stop() has been called, the
\* workers eventually all have terminated unless start() is called again;
\* (c) from the call of stop() on, until a start(), the receiver does not
\* become connected or receiving.
C6_StopIdempotentTerminal ==
    /\ [][(receiver = "TCP" /\ tcp_stop_event /\ AliveWorkers = {}
              /\ client_pc' # client_pc) =>
            UNCHANGED <<heap, tcp_stop_event, tcp_worker_thread,
                        tcp_client_socket, tcp_is_connected,
                        tcp_is_receiving, tcp_pc>>]_vars
    /\ [][(receiver = "Replay" /\ ~rep_is_running /\ client_pc = "idle"
              /\ ~rep_stop_called /\ rep_stop_called') =>
            UNCHANGED <<heap, rep_is_running, rep_stop_event,
                        rep_worker_thread, rep_pc>>]_vars
    /\ tcp_stop_called ~> (AliveWorkers = {} \/ ~tcp_stop_called)
    /\ rep_stop_called ~> ((\A t \in Threads : ~RepAlive(t)) \/ ~rep_stop_called)
    /\ [][(tcp_stop_called /\ tcp_stop_called') =>
            /\ tcp_is_connected' => tcp_is_connected
            /\ tcp_is_receiving' => tcp_is_receiving]_vars

(***************************************************************************)
(* Serial_Receiver._unescape_data as a function: it is applied to every    *)
(* byte string of up to UneMaxLen bytes over the three framing bytes, the  *)
(* three escape codes and one ordinary byte, directly and after the        *)
(* device-side escaping.                                                   *)
(***************************************************************************)
UneMaxLen == 3

\* all sequences over S of length n
RECURSIVE SeqsOfLen(_, _)
SeqsOfLen(S, n) ==
    IF n = 0 THEN {<<>>}
    ELSE {Append(q, b) : q \in SeqsOfLen(S, n - 1), b \in S}

\* the data under test: strings of framing bytes, escape codes and an
\* ordinary byte
UnePayloads ==
    UNION {SeqsOfLen({FRAME_HEAD, FRAME_TAIL, ESCAPE_BYTE, ESCAPE_HEAD,
                      ESCAPE_TAIL, ESCAPE_ESC, 5}, n) : n \in 0..UneMaxLen}

\* the escaping of the sender: 0x0A, 0x0D, 0x1B become 0x1B 0x01,
\* 0x1B 0x02, 0x1B 0x03
RECURSIVE Escape(_)
Escape(p) ==
    IF p = <<>> THEN <<>>
    ELSE (IF p[1] = FRAME_HEAD THEN <<ESCAPE_BYTE, ESCAPE_HEAD>>
          ELSE IF p[1] = FRAME_TAIL THEN <<ESCAPE_BYTE, ESCAPE_TAIL>>
          ELSE IF p[1] = ESCAPE_BYTE THEN <<ESCAPE_BYTE, ESCAPE_ESC>>
          ELSE <<p[1]>>) \o Escape(Tail(p))

not_une == <<receiver, heap, state_lock, tcp_vars, client_vars, ser_vars, rep_vars,
             mqtt_vars, msc_vars, csv_vars, fn_vars>>

\* res = self._unescape_data(data)
ApplyUnescape ==
    /\ receiver = "Unescape"
    /\ une_op = "none"
    /\ une_out' = UnescapeData(une_in)
    /\ une_op' = "unescape"
    /\ UNCHANGED <<une_in, not_une>>

\* res = self._unescape_data(escape(p))
ApplyRoundTrip ==
    /\ receiver = "Unescape"
    /\ une_op = "none"
    /\ une_out' = UnescapeData(Escape(une_in))
    /\ une_op' = "roundtrip"
    /\ UNCHANGED <<une_in, not_une>>

InitUnescape ==
    /\ receiver = "Unescape"
    /\ InitObjects /\ InitTCPVars /\ InitSerialVars /\ InitReplayVars(FALSE)
    /\ InitMQTTVars /\ InitMSCVars
    /\ ctor = [stage |-> "none"] /\ pace = [pc |-> "none"] /\ dec = [frame |-> <<>>]
    /\ InitAuxVars
    /\ une_in \in UnePayloads
    /\ une_out = <<>>
    /\ une_op = "none"

NextUnescape == ApplyUnescape \/ ApplyRoundTrip

SpecUnescape == InitUnescape /\ [][NextUnescape]_vars

\* C11: unescape maps 1B 01 to 0A, 1B 02 to 0D and 1B 03 to 1B wherever the
\* pair stands, copies every byte that is not the escape byte, drops an
\* escape byte that ends the data, and gives back p when applied to
\* escape(p).
C11_UnescapeInvertsEscape ==
    /\ une_op = "unescape" =>
          LET d == une_in
              rest1 == UnescapeData(SubSeq(d, 2, Len(d)))
              rest2 == UnescapeData(SubSeq(d, 3, Len(d)))
          IN /\ d = <<>> => une_out = <<>>
             /\ (d # <<>> /\ d[1] # ESCAPE_BYTE) => une_out = <<d[1]>> \o rest1
             /\ d = <<ESCAPE_BYTE>> => une_out = <<>>
             /\ (Len(d) >= 2 /\ d[1] = ESCAPE_BYTE
                    /\ d[2] \in {ESCAPE_HEAD, ESCAPE_TAIL, ESCAPE_ESC})
                  => une_out = <<(IF d[2] = ESCAPE_HEAD THEN FRAME_HEAD
                                  ELSE IF d[2] = ESCAPE_TAIL THEN FRAME_TAIL
                                  ELSE ESCAPE_BYTE)>> \o rest2
    /\ une_op = "roundtrip" => une_out = une_in

\* C11 witness: a payload made of the head, the tail and the escape byte
\* went through escape and unescape and came back unchanged.
C11_Witness ==
    /\ une_op = "roundtrip"
    /\ une_in = <<FRAME_HEAD, FRAME_TAIL, ESCAPE_BYTE>>
    /\ une_out = une_in

\* C12 (as claimed): where the escape byte is followed by a byte b other
\* than 01, 02, 03, the output holds b in the place of the pair.
C12_UnknownEscapePassedThrough ==
    une_op = "unescape" =>
        LET d == une_in
        IN (Len(d) >= 2 /\ d[1] = ESCAPE_BYTE
               /\ d[2] \notin {ESCAPE_HEAD, ESCAPE_TAIL, ESCAPE_ESC})
             => une_out = <<d[2]>> \o UnescapeData(SubSeq(d, 3, Len(d)))

(***************************************************************************)
(* MQTT_Receiver: the callbacks, which the network thread of the client    *)
(* runs one at a time, and the reader.  The data queues are the live       *)
(* objects of the heap; a message carries its topic, the length of its     *)
(* payload and whether bytes 48 and 59 hold the marker 0x59.               *)
(***************************************************************************)
not_mqtt == <<receiver, tcp_vars, ser_vars, rep_vars, une_vars, msc_vars, csv_vars,
              fn_vars>>

\* the messages the broker may deliver: any topic, a payload that is
\* short, exact or long
Messages ==
    [topic : {"ok", "other"}, len : {ShortRead, PACKET_SIZE, PACKET_SIZE + 1},
     gps : BOOLEAN, gyro : BOOLEAN, id : {mqtt_nmsg + 1}]

\* _on_connect(rc)
OnConnect ==
    /\ receiver = "MQTT"
    /\ mqtt_pc = "m_idle"
    /\ state_lock = "free"
    /\ \E rc \in {0, 3} : mqtt_is_connected' = (rc = 0)
    /\ UNCHANGED <<heap, state_lock, mqtt_is_receiving, mqtt_pc, mqtt_msg,
                   mqtt_chan, mqtt_nmsg, mqtt_gps, mqtt_gyro, client_vars,
                   not_mqtt>>

\* _on_disconnect
OnDisconnect ==
    /\ receiver = "MQTT"
    /\ mqtt_pc = "m_idle"
    /\ state_lock = "free"
    /\ mqtt_is_connected' = FALSE
    /\ mqtt_is_receiving' = FALSE
    /\ UNCHANGED <<heap, state_lock, mqtt_pc, mqtt_msg, mqtt_chan, mqtt_nmsg,
                   mqtt_gps, mqtt_gyro, client_vars, not_mqtt>>

\* _on_message: the topic test, the length test and the assignment of
\* _is_receiving under _state_lock
OnMessage ==
    /\ receiver = "MQTT"
    /\ mqtt_pc = "m_idle"
    /\ mqtt_nmsg < MaxFrames
    /\ \E msg \in Messages :
          /\ mqtt_msg' = msg
          /\ IF msg.topic # "ok"
             THEN UNCHANGED <<mqtt_is_receiving, mqtt_pc, mqtt_chan>>
             ELSE IF msg.len # PACKET_SIZE
             THEN /\ state_lock = "free"
                  /\ mqtt_is_receiving' = FALSE
                  /\ UNCHANGED <<mqtt_pc, mqtt_chan>>
             ELSE /\ state_lock = "free"
                  /\ mqtt_is_receiving' = TRUE
                  /\ mqtt_pc' = "m_append"
                  /\ mqtt_chan' = 0
    /\ mqtt_nmsg' = mqtt_nmsg + 1
    /\ UNCHANGED <<heap, state_lock, mqtt_is_connected, mqtt_gps, mqtt_gyro,
                   client_vars, not_mqtt>>

\* _on_message: self.data_queues[i].append(voltages[i])   (one iteration)
OnMessageAppend ==
    /\ mqtt_pc = "m_append"
    /\ LET i == mqtt_chan + 1
       IN /\ heap' = [heap EXCEPT ![emg_data_queues[i]] =
                                      DequeAppend(@, Voltage(mqtt_msg.id, i), QueueLen)]
          /\ mqtt_chan' = i
          /\ mqtt_pc' = IF i = NumChannels THEN "m_aux" ELSE "m_append"
    /\ UNCHANGED <<state_lock, mqtt_is_connected, mqtt_is_receiving, mqtt_msg,
                   mqtt_nmsg, mqtt_gps, mqtt_gyro, client_vars, not_mqtt>>

\* _on_message: the GPS entry if payload[48] == 0x59 and the gyroscope
\* entry if payload[59] == 0x59
OnMessageAux ==
    /\ mqtt_pc = "m_aux"
    /\ mqtt_gps' = IF mqtt_msg.gps THEN DequeAppend(mqtt_gps, mqtt_msg.id, QueueLen)
                   ELSE mqtt_gps
    /\ mqtt_gyro' = IF mqtt_msg.gyro THEN DequeAppend(mqtt_gyro, mqtt_msg.id, QueueLen)
                    ELSE mqtt_gyro
    /\ mqtt_pc' = "m_idle"
    /\ UNCHANGED <<heap, state_lock, mqtt_is_connected, mqtt_is_receiving,
                   mqtt_msg, mqtt_chan, mqtt_nmsg, client_vars, not_mqtt>>

NextMQTT ==
    \/ OnConnect \/ OnDisconnect
    \/ OnMessage \/ OnMessageAppend \/ OnMessageAux
    \/ GetEnter \/ GetCopy \/ GetReturn

(***************************************************************************)
(* The transports with packets of a fixed size.                            *)
(***************************************************************************)
SpecFixed ==
    (InitTCP \/ (receiver = "MQTT" /\ InitAllVars)) /\ [][NextTCP \/ NextMQTT]_vars

LiveQueues == [i \in Channels |-> heap[emg_data_queues[i]]]

\* C13: TCP: every packet handed to the decoder has exactly PACKET_SIZE
\* bytes, a channel never holds more pushed values than packets were
\* decoded, and a connection's receive loop starts with an empty buffer,
\* whatever the previous connection left.  MQTT: a message whose payload is
\* not PACKET_SIZE bytes long changes no EMG, GPS or gyro buffer and starts
\* no decoding, and whenever such a buffer changes the message being
\* processed has PACKET_SIZE bytes.
C13_OnlyWholePacketsDecoded ==
    /\ [](tcp_nframes > 0 => tcp_slice = PACKET_SIZE)
    /\ [](\A i \in Channels : Len(tcp_pushed[i]) <= tcp_nframes)
    /\ [][\A t \in Threads :
            LET RecvPcs == {"w_recv_loop", "w_recv_lock", "w_recv", "w_append",
                            "w_set_receiving"}
            IN (tcp_pc[t] \notin RecvPcs /\ tcp_pc'[t] \in RecvPcs)
                => tcp_buffer'[t] = 0]_vars
    /\ [][(mqtt_nmsg' # mqtt_nmsg /\ mqtt_msg'.len # PACKET_SIZE) =>
            /\ UNCHANGED <<mqtt_gps, mqtt_gyro>>
            /\ LiveQueues' = LiveQueues
            /\ mqtt_pc' = "m_idle"]_vars
    /\ [][(receiver = "MQTT"
              /\ (LiveQueues' # LiveQueues \/ mqtt_gps' # mqtt_gps
                     \/ mqtt_gyro' # mqtt_gyro)) =>
            (mqtt_msg.len = PACKET_SIZE /\ mqtt_msg.topic = "ok")]_vars

\* C13 witness: a TCP connection on which a packet of PACKET_SIZE bytes
\* was decoded has ended with a partial packet in the buffer.
C13_Witness ==
    \E t \in Threads :
        /\ tcp_pc[t] = "w_cleanup_socket"
        /\ tcp_buffer[t] = ShortRead
        /\ tcp_nframes >= 1
        /\ tcp_slice = PACKET_SIZE

(***************************************************************************)
(* MultiSourceController with save_csv=True and its AsyncCSVLogger.  The   *)
(* receivers are reduced to what pop_new_data hands over: device d's       *)
(* samples are numbered 1, 2, ... in the order it pushed them.  A row of   *)
(* the CSV file is one emitted column; rows are numbered in the order in   *)
(* which they were put on the logger's queue.                              *)
(***************************************************************************)
\* samples a device delivers in all
MscMaxSamples == 5
\* Queue(maxsize): queue.Queue() has maxsize 0, which means no limit
CsvQueueMaxsize == 0

not_msc == <<receiver, heap, state_lock, tcp_vars, client_vars, ser_vars, rep_vars,
             une_vars, mqtt_vars, fn_vars>>

\* the integers a+1 .. b as a sequence
Ids(a, b) == [j \in 1..(b - a) |-> a + j]

\* np.concatenate(chunks, axis=1)
RECURSIVE Concatenate(_)
Concatenate(chunks) ==
    IF chunks = <<>> THEN <<>> ELSE Head(chunks) \o Concatenate(Tail(chunks))

\* min(lengths)
RECURSIVE MinLen(_, _)
MinLen(bufs, d) ==
    IF d = NumDevs THEN Len(bufs[d]) ELSE Min(Len(bufs[d]), MinLen(bufs, d + 1))

\* a buffer that is dropped instead of being appended to local_buffers[i]
RebufferDrop(buf) == <<>>
\* if buf.shape[1] > 0: self.local_buffers[i].append(buf)
Rebuffer(buf) == IF Len(buf) > 0 THEN <<buf>> ELSE <<>>

\* a leftover that is always empty
LeftoverNone(buf, n) == <<>>
\* flat_buffers[i][:, min_len:]
Leftover(buf, n) == SubSeq(buf, n + 1, Len(buf))

\* AsyncCSVLogger.push_data: if data_matrix.size > 0: self.queue.put(...),
\* which on a queue without limit neither blocks nor drops
PushData(q, rows) == IF Len(rows) > 0 THEN Append(q, rows) ELSE q

\* MultiSourceController.get_aligned_data; k[d] is the number of samples
\* pop_new_data of device d hands over (0: None)
GetAlignedData ==
    /\ receiver = "MSC"
    /\ msc_client = "idle"
    /\ \E k \in [Devs -> 0..MscMaxSamples] :
          /\ \A d \in Devs : msc_popped[d] + k[d] <= MscMaxSamples
          /\ LET polled == [d \in Devs |->
                              IF k[d] > 0
                              THEN Append(msc_local[d],
                                          Ids(msc_popped[d], msc_popped[d] + k[d]))
                              ELSE msc_local[d]]
                 flat_buffers == [d \in Devs |-> Concatenate(polled[d])]
                 min_len == MinLen(flat_buffers, 1)
             IN /\ msc_popped' = [d \in Devs |-> msc_popped[d] + k[d]]
                /\ IF min_len = 0
                   THEN /\ msc_local' = [d \in Devs |-> Rebuffer(flat_buffers[d])]
                        /\ msc_ret' = [none |-> TRUE, cols |-> [d \in Devs |-> <<>>]]
                        /\ UNCHANGED <<msc_emitted, csv_queue, csv_accepted>>
                   ELSE /\ msc_local' = [d \in Devs |->
                                           Rebuffer(Leftover(flat_buffers[d], min_len))]
                        /\ msc_ret' = [none |-> FALSE,
                                       cols |-> [d \in Devs |->
                                                   SubSeq(flat_buffers[d], 1, min_len)]]
                        /\ msc_emitted' = msc_emitted + min_len
                        /\ csv_queue' = PushData(csv_queue,
                                                 Ids(csv_accepted, csv_accepted + min_len))
                        /\ csv_accepted' = csv_accepted + min_len
    /\ UNCHANGED <<msc_client, csv_stop_event, csv_write_thread, csv_pc, csv_chunk,
                   csv_lines, csv_sample_index, csv_file, csv_written,
                   csv_stop_mark, csv_overlap, not_msc>>

\* rows a caller hands to the logger in all
CsvMaxRows == 3

\* AsyncCSVLogger.push_data called with a matrix of n columns
Push_csv ==
    /\ receiver = "CSV"
    /\ msc_client = "idle"
    /\ \E n \in 0..2 :
          /\ csv_accepted + n <= CsvMaxRows
          /\ csv_queue' = PushData(csv_queue, Ids(csv_accepted, csv_accepted + n))
          /\ csv_accepted' = csv_accepted + n
    /\ UNCHANGED <<msc_vars, csv_stop_event, csv_write_thread, csv_pc, csv_chunk,
                   csv_lines, csv_sample_index, csv_file, csv_written,
                   csv_stop_mark, csv_overlap, not_msc>>

CsvAlive(t) == csv_pc[t] \notin {"unborn", "dead"}
AliveWriters == {t \in Writers : CsvAlive(t)}

\* MultiSourceController.start -> AsyncCSVLogger.start: the file is opened
\* with 'w' and gets the header, the event is cleared, a new thread is
\* created and started (threads are numbered in the order of their creation)
Start_csv ==
    /\ receiver = "CSV"
    /\ msc_client = "idle"
    /\ csv_write_thread < MaxWriters
    /\ LET t == csv_write_thread + 1
       IN /\ csv_file' = <<>>
          /\ csv_stop_event' = FALSE
          /\ csv_write_thread' = t
          /\ csv_pc' = [csv_pc EXCEPT ![t] = "c_loop"]
          /\ csv_overlap' = (csv_overlap \/ AliveWriters # {})
    /\ UNCHANGED <<msc_vars, csv_queue, csv_chunk, csv_lines, csv_sample_index,
                   csv_written, csv_accepted, csv_stop_mark, not_msc>>

\* MultiSourceController.stop -> AsyncCSVLogger.stop: stop_event.set(), then
\* join(timeout=2.0) if there is a thread and it is alive
Stop_csv ==
    /\ receiver = "CSV"
    /\ msc_client = "idle"
    /\ csv_stop_event' = TRUE
    /\ csv_stop_mark' = csv_accepted
    /\ msc_client' = IF csv_write_thread # 0 /\ CsvAlive(csv_write_thread)
                     THEN "join" ELSE "idle"
    /\ UNCHANGED <<msc_local, msc_popped, msc_emitted, msc_ret, csv_queue,
                   csv_write_thread, csv_pc, csv_chunk, csv_lines,
                   csv_sample_index, csv_file, csv_written, csv_accepted,
                   csv_overlap, not_msc>>

\* stop: join returns because the thread has ended
StopJoined_csv ==
    /\ msc_client = "join"
    /\ ~CsvAlive(csv_write_thread)
    /\ msc_client' = "idle"
    /\ UNCHANGED <<msc_local, msc_popped, msc_emitted, msc_ret, csv_vars, not_msc>>

\* stop: join returns after 2.0 s with the thread still alive
StopJoinTimeout_csv ==
    /\ msc_client = "join"
    /\ CsvAlive(csv_write_thread)
    /\ msc_client' = "idle"
    /\ UNCHANGED <<msc_local, msc_popped, msc_emitted, msc_ret, csv_vars, not_msc>>

\* a loop that ends as soon as the event is set
WriteLoopGoesOnUndrained(stop, q) == ~stop
\* while not self.stop_event.is_set() or not self.queue.empty()
WriteLoopGoesOn(stop, q) == ~stop \/ q # <<>>

\* _write_loop: the loop test
CsvLoop(t) ==
    /\ csv_pc[t] = "c_loop"
    /\ csv_pc' = [csv_pc EXCEPT ![t] =
                     IF WriteLoopGoesOn(csv_stop_event, csv_queue)
                     THEN "c_get" ELSE "dead"]
    /\ UNCHANGED <<msc_vars, csv_queue, csv_stop_event, csv_write_thread,
                   csv_chunk, csv_lines, csv_sample_index, csv_file, csv_written,
                   csv_accepted, csv_stop_mark, csv_overlap, not_msc>>

\* _write_loop: chunk = self.queue.get(timeout=0.1); lines = [];
\* queue.Empty -> continue
CsvGet(t) ==
    /\ csv_pc[t] = "c_get"
    /\ IF csv_queue # <<>>
       THEN /\ csv_chunk' = [csv_chunk EXCEPT ![t] = Head(csv_queue)]
            /\ csv_queue' = Tail(csv_queue)
            /\ csv_lines' = [csv_lines EXCEPT ![t] = <<>>]
            /\ csv_pc' = [csv_pc EXCEPT ![t] = "c_format"]
       ELSE /\ csv_pc' = [csv_pc EXCEPT ![t] = "c_loop"]
            /\ UNCHANGED <<csv_chunk, csv_queue, csv_lines>>
    /\ UNCHANGED <<msc_vars, csv_stop_event, csv_write_thread, csv_sample_index,
                   csv_file, csv_written, csv_accepted, csv_stop_mark,
                   csv_overlap, not_msc>>

\* _write_loop: lines.append(f"{self.sample_index},{vals}\n")
CsvFormat(t) ==
    /\ csv_pc[t] = "c_format"
    /\ LET row == csv_chunk[t][Len(csv_lines[t]) + 1]
       IN csv_lines' = [csv_lines EXCEPT ![t] = Append(@, <<csv_sample_index, row>>)]
    /\ csv_pc' = [csv_pc EXCEPT ![t] = "c_count"]
    /\ UNCHANGED <<msc_vars, csv_queue, csv_stop_event, csv_write_thread,
                   csv_chunk, csv_sample_index, csv_file, csv_written,
                   csv_accepted, csv_stop_mark, csv_overlap, not_msc>>

\* _write_loop: self.sample_index += 1, then the next row or the end of
\* the for loop
CsvCount(t) ==
    /\ csv_pc[t] = "c_count"
    /\ csv_sample_index' = csv_sample_index + 1
    /\ csv_pc' = [csv_pc EXCEPT ![t] =
                     IF Len(csv_lines[t]) < Len(csv_chunk[t])
                     THEN "c_format" ELSE "c_write"]
    /\ UNCHANGED <<msc_vars, csv_queue, csv_stop_event, csv_write_thread,
                   csv_chunk, csv_lines, csv_file, csv_written, csv_accepted,
                   csv_stop_mark, csv_overlap, not_msc>>

\* _write_loop: f.writelines(lines) on the file opened with 'a'
CsvWrite(t) ==
    /\ csv_pc[t] = "c_write"
    /\ csv_file' = csv_file \o csv_lines[t]
    /\ csv_written' = csv_written \o csv_lines[t]
    /\ csv_chunk' = [csv_chunk EXCEPT ![t] = <<>>]
    /\ csv_lines' = [csv_lines EXCEPT ![t] = <<>>]
    /\ csv_pc' = [csv_pc EXCEPT ![t] = "c_loop"]
    /\ UNCHANGED <<msc_vars, csv_queue, csv_stop_event, csv_write_thread,
                   csv_sample_index, csv_accepted, csv_stop_mark, csv_overlap,
                   not_msc>>

\* the aligner alone: polls of get_aligned_data, whose batches stay on the
\* logger's queue
SpecMSC == InitOf("MSC") /\ [][GetAlignedData]_vars

NextCSV ==
    \/ Push_csv
    \/ Start_csv \/ Stop_csv \/ StopJoined_csv \/ StopJoinTimeout_csv
    \/ \E t \in Writers : CsvLoop(t)
    \/ \E t \in Writers : CsvGet(t)
    \/ \E t \in Writers : CsvFormat(t)
    \/ \E t \in Writers : CsvCount(t)
    \/ \E t \in Writers : CsvWrite(t)

\* the logger with a caller of start, stop and push_data
SpecCSV == InitOf("CSV") /\ [][NextCSV]_vars

\* what device d has pending before a step together with what the step
\* pops from its receiver
MscTotal(d) == Concatenate(msc_local[d]) \o Ids(msc_popped[d], msc_popped'[d])
MscMinLen == MinLen([d \in Devs |-> MscTotal(d)], 1)

\* C14: when every device has at least one pending or new sample, the poll
\* returns a matrix whose row for each device holds the first min_len of
\* that device's pending-and-new samples, min_len being the least total
\* over the devices, and each device keeps the remaining total - min_len
\* samples queued, in order; so what a device has queued is always exactly
\* what it delivered and was not yet emitted.
C14_EmitsMinLenKeepsRest ==
    /\ [][MscMinLen > 0 =>
            /\ ~msc_ret'.none
            /\ msc_emitted' = msc_emitted + MscMinLen
            /\ \A d \in Devs :
                  /\ Len(msc_ret'.cols[d]) = MscMinLen
                  /\ msc_ret'.cols[d] = SubSeq(MscTotal(d), 1, MscMinLen)
                  /\ Len(Concatenate(msc_local'[d])) = Len(MscTotal(d)) - MscMinLen
                  /\ msc_ret'.cols[d] \o Concatenate(msc_local'[d]) = MscTotal(d)]_vars
    /\ [](\A d \in Devs :
            Concatenate(msc_local[d]) = Ids(msc_emitted, msc_popped[d]))

\* C14 witness: a poll has emitted columns and left samples of one device
\* queued.
C14_Witness ==
    /\ ~msc_ret.none
    /\ \E d \in Devs : Len(msc_ret.cols[d]) >= 1 /\ Len(Concatenate(msc_local[d])) >= 2

\* C15: a poll in which some device has neither pending nor new samples
\* returns None, puts nothing on the logger's queue and leaves every
\* device's pending and new samples queued, unchanged and in order.
C15_NoDataRebuffersAll ==
    [][MscMinLen = 0 =>
         /\ msc_emitted' = msc_emitted
         /\ \A d \in Devs : Concatenate(msc_local'[d]) = MscTotal(d)
         /\ (msc_popped' # msc_popped =>
                (msc_ret'.none /\ csv_queue' = csv_queue))]_vars

\* C15 witness: the last poll returned None although a device had
\* delivered samples, and these are still queued.
C15_Witness ==
    /\ msc_ret.none
    /\ \E d \in Devs : msc_popped[d] >= 2 /\ Len(Concatenate(msc_local[d])) >= 2

\* C35: across any sequence of polls every emitted matrix has one row block
\* per device, in the order of the devices, all of the same column count,
\* and the block of a device holds exactly the samples of that device that
\* follow those emitted before; so for each device the columns emitted so
\* far followed by its pending list are the samples popped from its
\* receiver, in order: none is emitted twice, reordered or dropped.
C35_AlignedStreamsPreserved ==
    /\ [][/\ msc_emitted' >= msc_emitted
          /\ msc_ret'.none => msc_emitted' = msc_emitted
          /\ ~msc_ret'.none =>
                /\ DOMAIN msc_ret'.cols = Devs
                /\ \A d \in Devs :
                      /\ Len(msc_ret'.cols[d]) = Len(msc_ret'.cols[1])
                      /\ msc_ret'.cols[d] = Ids(msc_emitted, msc_emitted')]_vars
    /\ [](\A d \in Devs :
            Ids(0, msc_emitted) \o Concatenate(msc_local[d]) = Ids(0, msc_popped[d]))

\* C35 witness: a second matrix was emitted, of one column, after one of
\* two columns, and a device has samples pending.
C35_Witness ==
    /\ ~msc_ret.none
    /\ msc_emitted = 3
    /\ \A d \in Devs : msc_ret.cols[d] = <<3>>
    /\ \E d \in Devs : Concatenate(msc_local[d]) = <<4, 5>>

\* C16 (as claimed): whatever number of samples arrived, whenever the read
\* thread is outside its critical section the channel queues hold every
\* sample pushed since the last pop_new_data (or reset), in order, so that
\* the next pop_new_data obtains them all.
C16_PopObtainsEverySample ==
    state_lock = "free" =>
        \A i \in Channels : heap[i] = SubSeq(ser_pushed[i], ser_mark + 1, ser_spans)

\* the rows of the written lines, then the rows writers have taken from
\* the queue and not yet written, then the rows queued
CsvRows ==
    [k \in 1..Len(csv_written) |-> csv_written[k][2]]
        \o Concatenate([t \in Writers |-> csv_chunk[t]])
        \o Concatenate(csv_queue)

\* C17 (as claimed): over any sequence of start, push_data and stop calls
\* the k-th line written carries the index k - 1: the index grows by
\* exactly one per written row, with no duplicate and no gap.
C17_IndexGrowsByOnePerRow ==
    \A k \in 1..Len(csv_written) : csv_written[k][1] = k - 1

C19_QueueBoundedDropsOldest ==
    /\ CsvQueueMaxsize > 0
    /\ Len(csv_queue) <= CsvQueueMaxsize

\* C20 (as claimed): at any time at most one writer thread is alive.
C20_AtMostOneWriter == Cardinality(AliveWriters) <= 1

(***************************************************************************)
(* Replay.__init__, __enter__ and start() for every configuration: the     *)
(* file exists or not, sample rates and durations of either sign.          *)
(***************************************************************************)
not_fn == <<receiver, heap, state_lock, tcp_vars, client_vars, ser_vars, rep_vars,
            une_vars, mqtt_vars, msc_vars, csv_vars, aux_vars>>

\* the arguments of Replay(FilePath, sample_rate=, duration=, isLoop=)
CtorArgs ==
    [exists : BOOLEAN, sample_rate : {-500, -1, 0, 1, 500},
     duration : {-1, 0, 1, 4}, isLoop : BOOLEAN]

\* Replay.__init__: FileNotFoundError unless the path is a file;
\* queue_len = sample_rate * duration and deque(maxlen=queue_len), which
\* raises ValueError for a negative maxlen; nothing else is tested
ReplayConfig(a) ==
    IF ~a.exists THEN "FileNotFoundError"
    ELSE IF a.sample_rate * a.duration < 0 THEN "ValueError"
    ELSE "constructed"

\* Replay.__init__
CtorInit ==
    /\ receiver = "Ctor"
    /\ ctor.stage = "none"
    /\ \E a \in CtorArgs :
          ctor' = [stage |-> ReplayConfig(a),
                   exists |-> a.exists,
                   sample_rate |-> a.sample_rate,
                   duration |-> a.duration,
                   isLoop |-> a.isLoop,
                   \* 1.0 / sample_rate if sample_rate > 0 else 0, as a fraction
                   playback_interval |-> IF a.sample_rate > 0
                                         THEN <<1, a.sample_rate>> ELSE <<0, 1>>,
                   queue_len |-> a.sample_rate * a.duration,
                   worker_thread |-> 0]
    /\ UNCHANGED <<pace, dec, not_fn>>

\* __enter__ on a constructed object: the file is opened and mapped
CtorEnter ==
    /\ ctor.stage = "constructed"
    /\ ctor' = [ctor EXCEPT !.stage = "entered"]
    /\ UNCHANGED <<pace, dec, not_fn>>

\* start() on an entered object: the playback thread is created and started
CtorStart ==
    /\ ctor.stage = "entered"
    /\ ctor' = [ctor EXCEPT !.stage = "started", !.worker_thread = 1]
    /\ UNCHANGED <<pace, dec, not_fn>>

SpecCtor ==
    InitOf("Ctor") /\ [][CtorInit \/ CtorEnter \/ CtorStart]_vars

\* C27: a Replay whose file does not exist or whose sample rate is zero or
\* negative is rejected at construction or at context entry: it is never
\* entered, and no playback thread is ever started for it.
C27_InvalidConfigRejected ==
    (ctor.stage # "none" /\ (~ctor.exists \/ ctor.sample_rate <= 0)) =>
        (ctor.stage \notin {"entered", "started"} /\ ctor.worker_thread = 0)

(***************************************************************************)
(* Replay._receive_data_loop with its clock: time.monotonic() is an        *)
(* integer number of ticks, a playback interval is PaceInterval ticks, and *)
(* reading and pushing a record takes any number of ticks.                 *)
(***************************************************************************)
\* self.playback_interval, in ticks
PaceInterval == 2
\* the clock stops here
MaxTime == 6
\* records in the range that is played
PaceRecords == 2

\* pacing by a sleep of one interval after every record
NaiveTarget(start_time, packet_count, now) == now + PaceInterval
\* next_packet_target_time = start_time + packet_count * self.playback_interval
NextPacketTargetTime(start_time, packet_count, now) ==
    start_time + packet_count * PaceInterval

\* the thread begins: start_time = time.monotonic(), packet_count = 0
PaceBegin ==
    /\ receiver = "Pacer"
    /\ pace.pc = "none"
    /\ \E isLoop \in BOOLEAN :
          pace' = [pc |-> "loop", isLoop |-> isLoop, now |-> 0, start_time |-> 0,
                   packet_count |-> 0, pos |-> 0, target |-> 0,
                   sleep_duration |-> 0,
                   \* history: the time of the start or of the last wrap, the
                   \* records pushed since, and whether one was pushed late
                   anchor |-> 0, k |-> 0, late |-> FALSE]
    /\ UNCHANGED <<ctor, dec, not_fn>>

\* time passes while the thread is not asleep
PaceTick ==
    /\ pace.pc \in {"loop", "push", "pace"}
    /\ pace.now < MaxTime
    /\ pace' = [pace EXCEPT !.now = @ + 1]
    /\ UNCHANGED <<ctor, dec, not_fn>>

\* if current_offset >= end_offset: in loop mode current_offset is reset,
\* packet_count = 0 and start_time = time.monotonic(); else break
PaceLoop ==
    /\ pace.pc = "loop"
    /\ IF pace.pos >= PaceRecords
       THEN IF pace.isLoop
            THEN pace' = [pace EXCEPT !.pc = "push", !.pos = 0, !.packet_count = 0,
                                      !.start_time = pace.now,
                                      !.anchor = pace.now, !.k = 0]
            ELSE pace' = [pace EXCEPT !.pc = "done"]
       ELSE pace' = [pace EXCEPT !.pc = "push"]
    /\ UNCHANGED <<ctor, dec, not_fn>>

\* the record is read and pushed; packet_count += 1
PacePush ==
    /\ pace.pc = "push"
    /\ pace' = [pace EXCEPT !.pc = "pace", !.pos = @ + 1, !.packet_count = @ + 1,
                            !.k = @ + 1]
    /\ UNCHANGED <<ctor, dec, not_fn>>

\* next_packet_target_time and sleep_duration are computed;
\* if sleep_duration > 0 the thread goes to sleep
PaceTarget ==
    /\ pace.pc = "pace"
    /\ LET t == NextPacketTargetTime(pace.start_time, pace.packet_count, pace.now)
       IN pace' = [pace EXCEPT !.target = t,
                               !.sleep_duration = t - pace.now,
                               !.pc = IF t - pace.now > 0 THEN "sleep" ELSE "loop",
                               !.late = @ \/ (t - pace.now < 0)]
    /\ UNCHANGED <<ctor, dec, not_fn>>

\* time.sleep(sleep_duration) returns after sleep_duration or later
PaceWake ==
    /\ pace.pc = "sleep"
    /\ \E over \in {0, 1} :
          /\ pace.now + pace.sleep_duration + over <= MaxTime
          /\ pace' = [pace EXCEPT !.pc = "loop",
                                  !.now = @ + pace.sleep_duration + over]
    /\ UNCHANGED <<ctor, dec, not_fn>>

SpecPace ==
    InitOf("Pacer")
        /\ [][PaceBegin \/ PaceTick \/ PaceLoop \/ PacePush \/ PaceTarget \/ PaceWake]_vars

\* C28: the target time computed after the k-th record since the anchor
\* (the start of the playback or its last wrap) is anchor + k intervals,
\* whatever the time at which the record was pushed; the thread sleeps
\* exactly until that target when it lies ahead and does not sleep when the
\* record was pushed late.
C28_TargetFromAnchorAndCount ==
    (pace.pc \in {"loop", "sleep", "push", "done"} /\ pace.k > 0) =>
        /\ pace.target = pace.anchor + pace.k * PaceInterval
        /\ pace.pc = "sleep" =>
              (pace.sleep_duration > 0 /\ pace.now + pace.sleep_duration = pace.target)

\* C28 witness: a record was pushed after its target time, and the thread
\* now sleeps until the target of the next record, two intervals after the
\* anchor, after a wrap
C28_Witness ==
    /\ pace.pc = "sleep"
    /\ pace.late
    /\ pace.k = 2
    /\ pace.anchor > 0
    /\ pace.target = pace.anchor + 2 * PaceInterval

(***************************************************************************)
(* The decoders on their own: one frame of NumChannels fields of 3 bytes,  *)
(* decoded by Serial_Receiver._parse_valid_frame, by _process_packet /     *)
(* _parse_and_append of TCP_Receiver and Replay, and by                    *)
(* MQTT_Receiver._on_message.                                              *)
(***************************************************************************)
\* the 24-bit fields tried: every combination of a first byte on either
\* side of the sign bit or at an end of its range and of second and third
\* bytes at the ends of theirs
DecValues ==
    {b1 * 65536 + b2 * 256 + b3 :
        b1 \in {0, 1, 127, 128, 255}, b2 \in {0, 1, 255}, b3 \in {0, 1, 255}}

\* the three bytes of v, most significant first
ToBytes(v) == <<v \div 65536, (v \div 256) % 256, v % 256>>

\* the frame whose field i is vals[i]
FrameOf(vals) ==
    [j \in 1..FRAME_SIZE |-> ToBytes(vals[((j - 1) \div 3) + 1])[((j - 1) % 3) + 1]]

\* packet[offset:offset+3] for offset = i * 3 (i counted from 1 here)
Field(packet, i) == SubSeq(packet, 3 * (i - 1) + 1, 3 * (i - 1) + 3)

\* int.from_bytes(bytes_24, 'big', signed=False)
FromBytes(bytes_24) == bytes_24[1] * 65536 + bytes_24[2] * 256 + bytes_24[3]

\* a decoder that ignores the sign bit
FromBytesNoSign(bytes_24) == FromBytes(bytes_24)
\* int.from_bytes(bytes_24, 'big', signed=True)
FromBytesSigned(bytes_24) ==
    IF bytes_24[1] >= 128 THEN FromBytes(bytes_24) - 16777216 ELSE FromBytes(bytes_24)

\* a conversion with LSB = 1.5 / 2^24
NanoVoltsHalf(raw_value) ==
    LET q == raw_value \div 65536
        r == raw_value % 65536
    IN q * 5859375 + r * 89 + (r * 26671) \div 65536
\* raw_value * LSB * 1000 with LSB = 1.5 / 2^23: the voltage in units of
\* 10^-6 mV, rounded down (raw_value * 5859375 / 32768, computed by parts)
NanoVolts(raw_value) ==
    LET q == raw_value \div 32768
        r == raw_value % 32768
    IN q * 5859375 + r * 178 + (r * 26671) \div 32768

\* a frame arrives and every decoder is applied to it
Decode ==
    /\ receiver = "Decoders"
    /\ dec.frame = <<>>
    /\ \E vals \in [Channels -> DecValues] :
          LET packet == FrameOf(vals)
          IN dec' = [frame |-> packet,
                     vals |-> vals,
                     serial |-> ParseValidFrame(packet),
                     tcp |-> [i \in Channels |-> ExtractVoltage(FromBytes(Field(packet, i)))],
                     mqtt |-> [i \in Channels |-> FromBytesSigned(Field(packet, i))],
                     nanovolts |-> [i \in Channels |->
                                      NanoVolts(ExtractVoltage(FromBytes(Field(packet, i))))]]
    /\ UNCHANGED <<ctor, pace, not_fn>>

SpecDecode == InitOf("Decoders") /\ [][Decode]_vars

\* C29 as stated: the field 0x800000 decodes to -4194304 counts, about
\* -750.0 mV, and the field 0x000001 to about 0.0000894 mV.
C29_ReferenceVoltages ==
    dec.frame # <<>> =>
        \A i \in Channels :
            /\ dec.vals[i] = 8388608 =>
                  /\ dec.tcp[i] = -4194304
                  /\ dec.nanovolts[i] > -750050000 /\ dec.nanovolts[i] < -749950000
            /\ dec.vals[i] = 1 => dec.nanovolts[i] = 89

\* C29: the field 0x800000 decodes to -8388608 counts, -1500.0 mV, and the
\* field 0x000001 to 1 count, 0.000178 mV (to 10^-6 mV, rounded down).
C29_ReferenceVoltagesFullScale ==
    dec.frame # <<>> =>
        \A i \in Channels :
            /\ dec.vals[i] = 8388608 =>
                  (dec.tcp[i] = -8388608 /\ dec.nanovolts[i] = -1500000000)
            /\ dec.vals[i] = 1 => (dec.tcp[i] = 1 /\ dec.nanovolts[i] = 178)

\* C29 witness: a frame with both reference fields was decoded
C29_Witness ==
    /\ dec.frame # <<>>
    /\ dec.vals[1] = 8388608
    /\ dec.vals[NumChannels] = 1
    /\ dec.nanovolts[1] = -1500000000

\* C30: for every field v of a frame, the Serial, TCP/Replay and MQTT
\* decoders give the same count, v when v < 2^23 and v - 2^24 otherwise,
\* and the count of channel i is that of the bytes 3i..3i+2 (i from 0).
C30_DecodersAgree ==
    dec.frame # <<>> =>
        \A i \in Channels :
            LET v == dec.frame[3 * i - 2] * 65536 + dec.frame[3 * i - 1] * 256
                        + dec.frame[3 * i]
                count == IF v < 8388608 THEN v ELSE v - 16777216
            IN /\ v = dec.vals[i]
               /\ dec.serial[i] = count
               /\ dec.tcp[i] = count
               /\ dec.mqtt[i] = count

\* C30 witness: a frame with a negative field after a positive one was
\* decoded by all decoders
C30_Witness ==
    /\ dec.frame # <<>>
    /\ dec.vals[1] = 8388607 /\ dec.vals[NumChannels] = 8388608
    /\ dec.serial[NumChannels] = -8388608
    /\ dec.mqtt[NumChannels] = -8388608
    /\ dec.tcp[1] = 8388607

(***************************************************************************)
(* The GPS conversion of the live receivers (_Parse_GPS) and of Replay     *)
(* (_convert_gps_to_decimal).  A raw value DDMM.MM is the integer of its   *)
(* hundredths of a minute (4807.38 is 480738); decimal degrees are         *)
(* integers of 1/6000 degree (one hundredth of a minute).                  *)
(***************************************************************************)
not_aux == <<receiver, heap, state_lock, tcp_vars, client_vars, ser_vars, rep_vars,
             une_vars, mqtt_vars, msc_vars, csv_vars, ctor, pace, dec>>

\* raw values of either sign, whole degrees and not
GpsRaws ==
    {0, 738, 9999, 10000, 480738, 1800000, 1799999, -1, -738, -10000, -480738,
     -1799999}

\* to_decimal: degrees = raw_data // 100, minutes = raw_data % 100,
\* degrees + minutes / 60.0
ToDecimal(raw_data) == (raw_data \div 10000) * 6000 + (raw_data % 10000)

\* int(x): the integer part, rounded towards zero
PyInt(num, den) == IF num >= 0 THEN num \div den ELSE -((-num) \div den)

\* _convert_gps_to_decimal: int(raw / 100) + (raw % 100) / 60.0
ConvertGpsToDecimal(raw) == PyInt(raw, 10000) * 6000 + (raw % 10000)

\* the same raw latitude and longitude converted by both
ParseGPS ==
    /\ receiver = "GPS"
    /\ ~gps.done
    /\ \E lat_raw \in GpsRaws, lon_raw \in GpsRaws :
          gps' = [done |-> TRUE, lat_raw |-> lat_raw, lon_raw |-> lon_raw,
                  live |-> <<ToDecimal(lat_raw), ToDecimal(lon_raw)>>,
                  replay |-> <<ConvertGpsToDecimal(lat_raw),
                               ConvertGpsToDecimal(lon_raw)>>]
    /\ UNCHANGED <<pkt, leg, old, not_aux>>

SpecGPS == InitOf("GPS") /\ [][ParseGPS]_vars

\* C31: for every raw value the live receivers give
\* floor(raw / 100) + (raw mod 100) / 60, raw 4807.38 gives 48.123, and
\* Replay gives the same decimal as the live receivers.
C31_GpsDecimalAgrees ==
    gps.done =>
        /\ gps.live[1] = (gps.lat_raw \div 10000) * 6000 + (gps.lat_raw % 10000)
        /\ gps.live[2] = (gps.lon_raw \div 10000) * 6000 + (gps.lon_raw % 10000)
        /\ gps.lat_raw = 480738 => gps.live[1] = 288738
        /\ gps.replay = gps.live

(***************************************************************************)
(* TCP_Receiver._process_packet on its own: packets with any marker bytes  *)
(* and what they append.  A buffer is the sequence of the packets (their   *)
(* numbers) that appended to it.                                           *)
(***************************************************************************)
\* packets processed
PktMax == 3

\* the three deques of gyro_data and the two of gps_data, the EMG deques
PktBuffers == {"latitude", "longitude", "roll", "pitch", "yaw"}

\* bytes 48 and 59 of a packet: the marker 0x59, zero, another value
Packets == [b48 : {89, 0, 88}, b59 : {89, 0, 88}]

\* a test that takes every packet as valid
MarkerAny(byte) == byte = byte
\* if packet[48] == 0x59:   /   if packet[59] == 0x59:
MarkerValid(byte) == byte = 89

\* _process_packet(packet)
ProcessPacket ==
    /\ receiver = "Packet"
    /\ pkt.n < PktMax
    /\ \E packet \in Packets :
          LET id == pkt.n + 1
              gps_valid == MarkerValid(packet.b48)
              gyro_valid == MarkerValid(packet.b59)
          IN pkt' = [n |-> id,
                     packets |-> IF pkt.n = 0 THEN <<packet>>
                                 ELSE Append(pkt.packets, packet),
                     emg |-> [i \in Channels |->
                                IF pkt.n = 0 THEN <<id>> ELSE Append(pkt.emg[i], id)],
                     aux |-> [b \in PktBuffers |->
                                LET was == IF pkt.n = 0 THEN <<>> ELSE pkt.aux[b]
                                    valid == IF b \in {"latitude", "longitude"}
                                             THEN gps_valid ELSE gyro_valid
                                IN IF valid THEN Append(was, id) ELSE was]]
    /\ UNCHANGED <<gps, leg, old, not_aux>>

SpecPacket == InitOf("Packet") /\ [][ProcessPacket]_vars

\* the packets (numbers) among the first n whose byte at 48 or 59 is 0x59
RECURSIVE Marked(_, _, _)
Marked(packets, n, field) ==
    IF n = 0 THEN <<>>
    ELSE IF packets[n][field] = 89
         THEN Append(Marked(packets, n - 1, field), n)
         ELSE Marked(packets, n - 1, field)

\* C32: after any packets, every EMG buffer has received one sample per
\* packet, the GPS buffers one entry for exactly the packets whose byte 48
\* is 0x59 and the gyro buffers one entry for exactly the packets whose
\* byte 59 is 0x59, so that no auxiliary buffer has received more entries
\* than an EMG buffer.
C32_AuxOnlyWhenMarked ==
    pkt.n > 0 =>
        /\ \A i \in Channels : pkt.emg[i] = [k \in 1..pkt.n |-> k]
        /\ \A b \in {"latitude", "longitude"} :
              pkt.aux[b] = Marked(pkt.packets, pkt.n, "b48")
        /\ \A b \in {"roll", "pitch", "yaw"} :
              pkt.aux[b] = Marked(pkt.packets, pkt.n, "b59")
        /\ \A b \in PktBuffers : Len(pkt.aux[b]) <= pkt.n

\* C32 witness: three packets, the second without valid GPS and the third
\* without valid gyro data
C32_Witness ==
    /\ pkt.n = 3
    /\ pkt.aux["latitude"] = <<1, 3>>
    /\ pkt.aux["yaw"] = <<1, 2>>
    /\ pkt.packets[2].b48 = 88

(***************************************************************************)
(* The legacy TCP_Receiver (src/TCP_Receiver.py): receive_data on 64-byte  *)
(* packets of EMG fields, a separator at bytes 48-49 and 14 bytes of IMU   *)
(* data.  A buffer is the sequence of the packets that appended to it.     *)
(***************************************************************************)
\* packets received
LegMax == 3
\* mpu_data_queues
MPU_QUEUES == 7

\* what one pass of the outer loop reads: 64 bytes with a separator
\* (0xFFFF, 0x0000, 0x00FF, 0xFF00), or the end of the stream
LegReads ==
    [len : {64}, separator : {65535, 0, 255, 65280}]
        \cup [len : {0}, separator : {0}]

\* a test that takes every separator but 0x0000 as IMU data
SeparatorNonZero(separator) == separator # 0
\* if separator == 0xFFFF:
SeparatorImu(separator) == separator = 65535

\* receive_data: one pass of `while not self.stop_event.is_set()`
ReceiveData ==
    /\ receiver = "Legacy"
    /\ leg.n < LegMax
    /\ leg.n > 0 => ~leg.stop_event
    /\ \E r \in LegReads :
          LET id == leg.n + 1
              first == leg.n = 0
              emg == IF first THEN [i \in Channels |-> <<>>] ELSE leg.emg
              mpu == IF first THEN [j \in 1..MPU_QUEUES |-> <<>>] ELSE leg.mpu
              seps == IF first THEN <<>> ELSE leg.separators
              logged == IF first THEN 0 ELSE leg.logged
          IN IF r.len = 64
             THEN leg' = [n |-> id,
                          separators |-> Append(seps, r.separator),
                          emg |-> [i \in Channels |-> Append(emg[i], id)],
                          mpu |-> [j \in 1..MPU_QUEUES |->
                                     IF SeparatorImu(r.separator)
                                     THEN Append(mpu[j], id) ELSE mpu[j]],
                          logged |-> IF r.separator \in {65535, 0}
                                     THEN logged ELSE logged + 1,
                          isReceiving |-> TRUE,
                          stop_event |-> FALSE]
             ELSE \* not data: the flag is set, and again for the length
                  leg' = [n |-> id,
                          separators |-> Append(seps, -1),
                          emg |-> emg,
                          mpu |-> mpu,
                          logged |-> logged + 2,
                          isReceiving |-> FALSE,
                          stop_event |-> TRUE]
    /\ UNCHANGED <<gps, pkt, old, not_aux>>

SpecLegacy == InitOf("Legacy") /\ [][ReceiveData]_vars

OldRecords == 3

\* what readData decodes of the file: per channel, every record
OldDataset == [i \in Channels |-> Ids(0, OldRecords)]

\* the arguments of tf_SeekSpecifiedSegment
OldSegments == {<<0, OldRecords>>, <<1, OldRecords>>, <<0, 1>>, <<1, 2>>,
                <<-1, 2>>, <<0, OldRecords + 1>>}

\* list[start:end] for 0 <= start, 0 <= end: the end is clipped to the
\* length, and a start at or beyond the end gives []
ListSlice(list, start, end) == SubSeq(list, start + 1, Min(end, Len(list)))

\* readData (the thread readRawData started) ends:
\* self.length = len(self.all_datas[0]); self.rawData = self.all_datas
ReadDataEnd ==
    /\ receiver = "Old"
    /\ old.file = "none"
    /\ old' = [file |-> "loaded",
               lists |-> [o \in {"init", "data"} |->
                            IF o = "data" THEN OldDataset
                            ELSE [i \in Channels |-> <<>>]],
               all_datas |-> "data",
               rawData |-> "data",
               length |-> OldRecords,
               played |-> TRUE,
               last |-> "readData",
               ret |-> -1]
    /\ UNCHANGED <<gps, pkt, leg, not_aux>>

\* tf_Seek(file_path, pos) with the path of the file that is loaded:
\* for i in range(self.channel): self.rawData[i] = self.all_datas[i][pos:]
tf_Seek ==
    /\ receiver = "Old"
    /\ old.file = "loaded"
    /\ \E pos \in (-1)..(OldRecords + 1) :
          IF pos < 0 \/ pos > old.length
          THEN old' = [old EXCEPT !.last = "tf_Seek"]
          ELSE old' = [old EXCEPT
                          !.lists[old.rawData] =
                              [i \in Channels |->
                                 ListSlice(old.lists[old.all_datas][i], pos,
                                         Len(old.lists[old.all_datas][i]))],
                          !.played = FALSE,
                          !.last = "tf_Seek"]
    /\ UNCHANGED <<gps, pkt, leg, not_aux>>

\* tf_SeekSpecifiedSegment(start_index, end_index):
\* self.rawData[i] = self.all_datas[i][start_index:end_index]
\* (`not self.rawData` is False of a list of lists)
tf_SeekSpecifiedSegment ==
    /\ receiver = "Old"
    /\ old.file = "loaded"
    /\ \E seg \in OldSegments :
          IF seg[1] < 0 \/ seg[2] > old.length
          THEN old' = [old EXCEPT !.last = "tf_SeekSpecifiedSegment"]
          ELSE old' = [old EXCEPT
                          !.lists[old.rawData] =
                              [i \in Channels |->
                                 ListSlice(old.lists[old.all_datas][i], seg[1], seg[2])],
                          !.played = FALSE,
                          !.last = "tf_SeekSpecifiedSegment"]
    /\ UNCHANGED <<gps, pkt, leg, not_aux>>

\* tf_PlayBack(file_path) with the path of the file that is loaded:
\* self.rawData = self.all_datas
tf_PlayBack ==
    /\ receiver = "Old"
    /\ old.file = "loaded"
    /\ old' = [old EXCEPT !.rawData = old.all_datas,
                          !.played = TRUE,
                          !.last = "tf_PlayBack"]
    /\ UNCHANGED <<gps, pkt, leg, not_aux>>

\* tf_getDataLength: return len(self.rawData[0])
tf_getDataLength ==
    /\ receiver = "Old"
    /\ old.file = "loaded"
    /\ old' = [old EXCEPT !.ret = Len(old.lists[old.rawData][1]),
                          !.last = "tf_getDataLength"]
    /\ UNCHANGED <<gps, pkt, leg, not_aux>>

SpecOld ==
    InitOf("Old")
        /\ [][ReadDataEnd \/ tf_Seek \/ tf_SeekSpecifiedSegment \/ tf_PlayBack
                \/ tf_getDataLength]_vars

\* C37 (as claimed): the seeks narrow only the view and leave the decoded
\* data intact: all_datas holds every record of the file in every state,
\* after a tf_PlayBack of the same file rawData is the full dataset again,
\* and a tf_getDataLength that follows it returns the total record count.
C37_SeekKeepsAllDatas ==
    old.file = "loaded" =>
        /\ old.lists[old.all_datas] = OldDataset
        /\ old.played => old.lists[old.rawData] = OldDataset
        /\ (old.played /\ old.last = "tf_getDataLength") => old.ret = OldRecords

====
